---------------------------- MODULE Spec2Model ----------------------------
(***************************************************************************)
(* VSIX Downloader Pro: the content script (VSIXDownloader), the popup     *)
(* (PopupManager), the background service worker, and the two scripts for  *)
(* the browser console (legacy and enhanced).                              *)
(*                                                                         *)
(* JavaScript strings are sequences of one-character strings.  Timers are  *)
(* records with the time left until they are due; time advances by Tick,   *)
(* never past a due timer, and a due timer fires before a later one.       *)
(***************************************************************************)
EXTENDS Integers, Sequences, FiniteSets, TLC

(***************************************************************************)
(* Bounds of the model                                                     *)
(***************************************************************************)
\* longest filename stem enumerated for sanitizeFilename
MaxLen == 3
\* calls that may be in flight at once
MaxAwaits == 2
\* downloads the platform starts in one run
MaxDownloads == 2

(***************************************************************************)
(* Strings                                                                 *)
(***************************************************************************)
DotVsix == <<".", "v", "s", "i", "x">>
DotVsixPackage == <<".", "v", "s", "i", "x", "p", "a", "c", "k", "a", "g", "e">>
DownloadVsix == <<"d", "o", "w", "n", "l", "o", "a", "d">> \o DotVsix

\* characters matched by \s
Whitespace == {" ", "\t"}

\* String.prototype.endsWith
EndsWith(s, suf) ==
    /\ Len(s) >= Len(suf)
    /\ SubSeq(s, Len(s) - Len(suf) + 1, Len(s)) = suf

\* String.prototype.includes for a two-character needle
HasDotDot(s) == \E i \in 1..(Len(s) - 1) : s[i] = "." /\ s[i + 1] = "."

\* String.prototype.lastIndexOf(c), 1-based; 0 when absent
LastIndexOf(s, c) ==
    LET I == {i \in 1..Len(s) : s[i] = c}
    IN IF I = {} THEN 0 ELSE CHOOSE i \in I : \A j \in I : j <= i

\* s.replace(/[set]/g, r): every character of the class replaced
ReplaceClass(s, set, r) == [i \in 1..Len(s) |-> IF s[i] \in set THEN r ELSE s[i]]

\* removed by Keep; no text of the model holds it
Dropped == "(dropped)"
Keep(s) == SelectSeq(s, LAMBDA c : c # Dropped)

\* the number of consecutive '.' that end just before position i
DotsBefore(s, i) ==
    LET J == {j \in 1..(i - 1) : s[j] # "."}
    IN IF J = {} THEN i - 1
       ELSE (i - 1) - (CHOOSE j \in J : \A k \in J : k <= j)

\* s.replace(/\.\./g, '_'): non-overlapping matches, left to right, so a run
\* of dots is consumed in pairs from its start
ReplaceDotDot(s) ==
    Keep([i \in 1..Len(s) |->
            IF s[i] # "." THEN s[i]
            ELSE IF DotsBefore(s, i) % 2 = 1 THEN Dropped
            ELSE IF i < Len(s) /\ s[i + 1] = "." THEN "_"
            ELSE "."])

\* s.replace(/^\./, '_')
ReplaceLeadingDot(s) ==
    IF Len(s) >= 1 /\ s[1] = "." THEN <<"_">> \o Tail(s) ELSE s

\* s.replace(/\s+/g, '_'): every maximal run of whitespace becomes one '_'
ReplaceWsRuns(s) ==
    Keep([i \in 1..Len(s) |->
            IF s[i] \notin Whitespace THEN s[i]
            ELSE IF i < Len(s) /\ s[i + 1] \in Whitespace THEN Dropped
            ELSE "_"])

\* String.prototype.trim
Trim(s) ==
    LET I == {i \in 1..Len(s) : s[i] \notin Whitespace}
    IN IF I = {} THEN <<>>
       ELSE SubSeq(s, CHOOSE i \in I : \A j \in I : i <= j,
                      CHOOSE i \in I : \A j \in I : j <= i)

\* a JavaScript value: a string, or something that is not one
Str(s) == [t |-> "string", v |-> s]
Undefined == [t |-> "undefined", v |-> <<>>]

(***************************************************************************)
(* Background service worker: sanitizeFilename                             *)
(***************************************************************************)
WindowsForbidden == {"<", ">", ":", "\"", "|", "?", "*"}

MaxFilenameLength == 200

\* the four chained replacements and the trim
SanitizeChars(s) ==
    Trim(ReplaceWsRuns(ReplaceLeadingDot(ReplaceDotDot(
        ReplaceClass(s, WindowsForbidden, "_")))))

\* "Ensure it has a valid extension"
EnsureExtension(s) ==
    IF ~EndsWith(s, DotVsix) /\ ~EndsWith(s, DotVsixPackage)
    THEN s \o DotVsix
    ELSE s

\* "Limit length"
LimitLength(s) ==
    IF Len(s) > MaxFilenameLength
    THEN LET ext == SubSeq(s, LastIndexOf(s, "."), Len(s))
         IN SubSeq(s, 1, MaxFilenameLength - Len(ext)) \o ext
    ELSE s

sanitizeFilename(filename) ==
    IF filename.t # "string"
    THEN DownloadVsix
    ELSE LimitLength(EnsureExtension(SanitizeChars(filename.v)))

(***************************************************************************)
(* Content script: the descriptor and the Field Extractor                  *)
(*                                                                         *)
(* A page address is the record [path, itemName]: whether the address      *)
(* contains marketplace.visualstudio.com/items, and the raw text after     *)
(* itemName= (NoParam when the parameter is absent).  A document is what   *)
(* the selectors of the three version strategies return for it.            *)
(***************************************************************************)
NoParam == [t |-> "undefined", v |-> <<>>]

EmptyData == [version |-> <<>>, publisher |-> <<>>, identifier |-> <<>>, name |-> <<>>]

Digits == {"0", "1", "2", "3", "4", "5", "6", "7", "8", "9"}
\* \w of the regular expressions, over the characters the model uses
WordChars == Digits \cup {"a", "b", "c", "e", "p", "x", "v", "_"}

\* Array.prototype.join('.')
RECURSIVE JoinDot(_)
JoinDot(parts) ==
    IF Len(parts) = 0 THEN <<>>
    ELSE IF Len(parts) = 1 THEN parts[1]
         ELSE parts[1] \o <<".">> \o JoinDot(Tail(parts))

\* String.prototype.split('.')
RECURSIVE SplitDot(_)
SplitDot(s) ==
    LET I == {i \in 1..Len(s) : s[i] = "."}
    IN IF I = {} THEN <<s>>
       ELSE LET i == CHOOSE k \in I : \A j \in I : k <= j
            IN <<SubSeq(s, 1, i - 1)>> \o SplitDot(SubSeq(s, i + 1, Len(s)))

\* s.replace(/[<>"'&]/g, ''): the characters are removed
RemoveClass(s, set) == SelectSeq(s, LAMBDA c : c \notin set)

HtmlChars == {"<", ">", "\"", "'", "&"}

sanitizeText(text) ==
    IF text.t # "string" THEN <<>> ELSE Trim(RemoveClass(text.v, HtmlChars))

\* the end of the run of digits that starts at i (i - 1 when there is none)
RECURSIVE DigitRunEnd(_, _)
DigitRunEnd(s, i) ==
    IF i <= Len(s) /\ s[i] \in Digits THEN DigitRunEnd(s, i + 1) ELSE i - 1

\* the end e of a match, when a number does end there; 0 otherwise
NumberEnd(start, e) == IF e >= start THEN e ELSE 0

\* the end of \.\d+ matched after position e; 0 when it does not match
\* there, or when e is 0
DotNumberEnd(s, e) ==
    IF e > 0 /\ e + 1 <= Len(s) /\ s[e + 1] = "."
    THEN NumberEnd(e + 2, DigitRunEnd(s, e + 2))
    ELSE 0

\* the end of \d+\.\d+\.\d+ matched from i with each \d+ taking its whole run;
\* 0 when it does not match there
ThreeNumbersEnd(s, i) ==
    DotNumberEnd(s, DotNumberEnd(s, NumberEnd(i, DigitRunEnd(s, i))))

\* a test every value passes
AnyVersion(version) == TRUE

\* /^\d+\.\d+\.\d+/.test(version)
isValidVersion(version) ==
    version.t = "string" /\ ThreeNumbersEnd(version.v, 1) > 0

\* \b at the gap after position i (between s[i] and s[i + 1])
WordBoundaryAfter(s, i) ==
    (i >= 1 /\ i <= Len(s) /\ s[i] \in WordChars)
    # (i + 1 >= 1 /\ i + 1 <= Len(s) /\ s[i + 1] \in WordChars)

\* the end of the match, given the end e3 of the three numbers and the end
\* e4 of the optional fourth: the fourth is tried first (greedy) and given
\* up when no word boundary follows it
BoundedEnd(s, e3, e4) ==
    IF e3 = 0 THEN 0
    ELSE IF e4 > 0 /\ WordBoundaryAfter(s, e4) THEN e4
    ELSE IF WordBoundaryAfter(s, e3) THEN e3
    ELSE 0

FourthNumberEnd(s, e3) == BoundedEnd(s, e3, DotNumberEnd(s, e3))

\* where /\b(\d+\.\d+\.\d+(?:\.\d+)?)\b/ matching from i ends; 0 when it does
\* not match there
VersionMatchEnd(s, i) ==
    IF WordBoundaryAfter(s, i - 1) THEN FourthNumberEnd(s, ThreeNumbersEnd(s, i)) ELSE 0

\* the least element of a set of positions, 0 for the empty set
Leftmost(I) == IF I = {} THEN 0 ELSE CHOOSE k \in I : \A j \in I : k <= j

MatchFrom(s, i) == IF i = 0 THEN <<>> ELSE SubSeq(s, i, VersionMatchEnd(s, i))

\* text.match(/\b(\d+\.\d+\.\d+(?:\.\d+)?)\b/): group 1 of the leftmost
\* match, <<>> when there is none
VersionMatch(s) == MatchFrom(s, Leftmost({i \in 1..Len(s) : VersionMatchEnd(s, i) > 0}))

\* /version/i.test(text), the word being one symbol of the model's texts
MentionsVersion(s) == \E i \in 1..Len(s) : s[i] \in {"version", "Version"}

\* JavaScript truthiness of the values the model uses
Truthy(x) == x.t = "string" /\ x.v # <<>>

\* xs[i]; the last element of xs when i is 0
ElementAt(xs, i) == IF i = 0 THEN xs[Len(xs)] ELSE xs[i]

\* a || b || c || d
FirstTruthy(xs) == ElementAt(xs, Leftmost({i \in 1..Len(xs) : Truthy(xs[i])}))

\* [publisher, name] = parts: the second part alone as the name
WithTwoParts(data, parts) ==
    IF Len(parts) >= 2
    THEN [data EXCEPT !.publisher = parts[1], !.name = parts[2]]
    ELSE data

\* what extractFromURL stores for the parts of itemName
WithParts(data, parts) ==
    IF Len(parts) >= 2
    THEN [data EXCEPT !.publisher = sanitizeText(Str(parts[1])),
                      !.name = sanitizeText(Str(JoinDot(Tail(parts))))]
    ELSE data

\* extractFromURL: identifier, publisher and name from the itemName parameter
extractFromURL(data, loc) ==
    IF ~Truthy(loc.itemName) THEN data
    ELSE WithParts([data EXCEPT !.identifier = sanitizeText(loc.itemName)],
                   SplitDot(loc.itemName.v))

\* the candidate of one parsed script block
ScriptVersion(block) ==
    FirstTruthy(<<block.softwareVersion, block.version, block.Version, block.offersVersion>>)

\* a version candidate passes: version && this.isValidVersion(version)
Checked(version) == IF Truthy(version) /\ isValidVersion(version) THEN version ELSE Undefined

\* the first of the values that is not Undefined; Undefined when all are
FirstDefined(xs) == ElementAt(xs, Leftmost({i \in 1..Len(xs) : xs[i] # Undefined}))

\* extractVersionFromStructuredData: the first parsable block whose candidate
\* is a valid version; Undefined when there is none
StructuredDataVersion(d) ==
    FirstDefined([i \in 1..Len(d.scripts) |->
                     IF d.scripts[i].ok THEN Checked(ScriptVersion(d.scripts[i]))
                     ELSE Undefined]
                 \o <<Undefined>>)

\* group 1 of the match as a value; Undefined when there is no match
Matched(m) == IF m = <<>> THEN Undefined ELSE Str(m)

\* extractVersionFromDOM: the first element of the priority selectors whose
\* text holds a version, else the first td/dd/span that mentions "version"
\* and holds one
DomVersion(d) ==
    FirstDefined([i \in 1..Len(d.selected) |-> Matched(VersionMatch(Trim(d.selected[i])))]
                 \o [i \in 1..Len(d.cells) |->
                        IF MentionsVersion(Trim(d.cells[i]))
                        THEN Matched(VersionMatch(Trim(d.cells[i])))
                        ELSE Undefined]
                 \o <<Undefined>>)

\* extractVersionFromPageData: window.__INITIAL_STATE__
PageDataVersion(d) ==
    IF ~d.state.present THEN Undefined
    ELSE Checked(FirstTruthy(<<d.state.extension, d.state.item, d.state.data>>))

\* the version found is added to the one the descriptor holds
AppendedVersion(data, version) ==
    IF version # Undefined THEN [data EXCEPT !.version = @ \o version.v] ELSE data

\* this.extensionData.version = version, when a strategy found one
WithVersion(data, version) ==
    IF version # Undefined THEN [data EXCEPT !.version = version.v] ELSE data

\* the strategies in the opposite order
ReversedStrategies(data, d) ==
    WithVersion(data, FirstDefined(<<PageDataVersion(d), DomVersion(d),
                                     StructuredDataVersion(d)>>))

\* extractVersion: the three strategies in order, the first success wins
extractVersion(data, d) ==
    WithVersion(data, FirstDefined(<<StructuredDataVersion(d), DomVersion(d),
                                     PageDataVersion(d)>>))

extractMetadata(data, loc, d) == extractVersion(extractFromURL(data, loc), d)

\* a test every descriptor passes
AnyData(data) == TRUE

hasValidData(data) ==
    data.identifier # <<>> /\ data.version # <<>> /\ data.publisher # <<>>

(***************************************************************************)
(* URLs.  In URL texts the fixed words of the templates and of the host    *)
(* names are one symbol each; the program only ever compares them whole.   *)
(***************************************************************************)
\* a template filled in with the raw values
RawVsixUrl(publisher, extension, version) ==
    <<"https", ":", "/", "/">> \o publisher
    \o <<".", "gallery", ".", "vsassets", ".", "io">>
    \o <<"/", "_apis", "/", "public", "/", "gallery", "/", "publisher", "/">>
    \o publisher \o <<"/", "extension", "/">> \o extension \o <<"/">> \o version
    \o <<"/", "assetbyname", "/", "Microsoft.VisualStudio.Services.VSIXPackage">>

\* an encoder that leaves every character as it is
Unencoded(c) == <<c>>

\* the characters encodeURIComponent leaves alone
Unreserved ==
    Digits
    \cup {"a", "b", "c", "d", "e", "f", "g", "h", "i", "j", "k", "l", "m", "n", "o", "p",
          "q", "r", "s", "t", "u", "v", "w", "x", "y", "z"}
    \cup {"A", "B", "C", "D", "E", "F", "G", "H", "I", "J", "K", "L", "M", "N", "O", "P",
          "Q", "R", "S", "T", "U", "V", "W", "X", "Y", "Z"}
    \cup {"-", "_", ".", "!", "~", "*", "'", "(", ")"}

PercentCode(c) ==
    CASE c = " "  -> <<"%", "2", "0">>
      [] c = "\t" -> <<"%", "0", "9">>
      [] c = "\"" -> <<"%", "2", "2">>
      [] c = "%"  -> <<"%", "2", "5">>
      [] c = "&"  -> <<"%", "2", "6">>
      [] c = "/"  -> <<"%", "2", "F">>
      [] c = ":"  -> <<"%", "3", "A">>
      [] c = "<"  -> <<"%", "3", "C">>
      [] c = ">"  -> <<"%", "3", "E">>
      [] c = "?"  -> <<"%", "3", "F">>
      [] c = "|"  -> <<"%", "7", "C">>
      [] OTHER    -> <<"%", c>>

RECURSIVE encodeURIComponent(_)
encodeURIComponent(s) ==
    IF Len(s) = 0 THEN <<>>
    ELSE (IF s[1] \in Unreserved THEN <<s[1]>> ELSE PercentCode(s[1]))
         \o encodeURIComponent(Tail(s))

GalleryHost == <<"gallery", ".", "vsassets", ".", "io">>
MarketplaceHost == <<"marketplace", ".", "visualstudio", ".", "com">>

\* the template of kind 'vsix'
VsixUrl(publisher, extension, version) ==
    <<"https", ":", "/", "/">> \o encodeURIComponent(publisher) \o <<".">> \o GalleryHost
    \o <<"/", "_apis", "/", "public", "/", "gallery", "/", "publisher", "/">>
    \o encodeURIComponent(publisher) \o <<"/", "extension", "/">>
    \o encodeURIComponent(extension) \o <<"/">> \o encodeURIComponent(version)
    \o <<"/", "assetbyname", "/", "Microsoft.VisualStudio.Services.VSIXPackage">>

\* the template of kind 'vsixpackage'
PackageUrl(publisher, extension, version) ==
    <<"https", ":", "/", "/">> \o MarketplaceHost
    \o <<"/", "_apis", "/", "public", "/", "gallery", "/", "publishers", "/">>
    \o encodeURIComponent(publisher) \o <<"/", "vsextensions", "/">>
    \o encodeURIComponent(extension) \o <<"/">> \o encodeURIComponent(version)
    \o <<"/", "vspackage">>

FirstIndexIn(s, set) ==
    LET I == {i \in 1..Len(s) : s[i] \in set}
    IN IF I = {} THEN 0 ELSE CHOOSE i \in I : \A j \in I : i <= j

\* characters a host may not hold.  Every '%' of the model's URLs starts
\* the code of one of them, so a host with a '%' does not parse either.
ForbiddenHostChars == {" ", "\t", "<", ">", "|", "?", "\"", "%", "/", ":", "@", "#"}

\* new URL(text): [ok, protocol, hostname].  The scheme ends at the first
\* ':'; the slashes after it are skipped; the authority ends at the next
\* '/', '?' or '#'; credentials (up to the last '@') and a port are dropped.
\* Of the schemes only http and https occur in the model's URLs.
ParseUrl(u) ==
    LET colon == FirstIndexIn(u, {":"})
        scheme == SubSeq(u, 1, colon - 1)
        afterScheme == SubSeq(u, colon + 1, Len(u))
        firstNonSlash == FirstIndexIn(afterScheme, {c \in {afterScheme[i] : i \in 1..Len(afterScheme)} : c # "/"})
        rest == IF firstNonSlash = 0 THEN <<>>
                ELSE SubSeq(afterScheme, firstNonSlash, Len(afterScheme))
        stop == FirstIndexIn(rest, {"/", "?", "#"})
        authority == IF stop = 0 THEN rest ELSE SubSeq(rest, 1, stop - 1)
        at == LastIndexOf(authority, "@")
        hostport == SubSeq(authority, at + 1, Len(authority))
        port == FirstIndexIn(hostport, {":"})
        host == IF port = 0 THEN hostport ELSE SubSeq(hostport, 1, port - 1)
    IN IF \/ colon <= 1
          \/ scheme \notin {<<"https">>, <<"http">>}
          \/ host = <<>>
          \/ \E i \in 1..Len(host) : host[i] \in ForbiddenHostChars
       THEN [ok |-> FALSE, protocol |-> <<>>, hostname |-> <<>>]
       ELSE [ok |-> TRUE, protocol |-> scheme \o <<":">>, hostname |-> host]

(***************************************************************************)
(* Background service worker: validateDownloadRequest                      *)
(***************************************************************************)
allowedDomains == <<MarketplaceHost, GalleryHost>>

\* a domain check that lets every host through
AnyDomain(hostname) == TRUE

isAllowedDomain(hostname) ==
    \E i \in 1..Len(allowedDomains) :
        \/ hostname = allowedDomains[i]
        \/ EndsWith(hostname, <<".">> \o allowedDomains[i])

\* [valid, error]
validateDownloadRequest(request) ==
    IF ~Truthy(request.url)
    THEN [valid |-> FALSE, error |-> "Invalid or missing URL"]
    ELSE IF ~Truthy(request.filename)
    THEN [valid |-> FALSE, error |-> "Invalid or missing filename"]
    ELSE IF ~ParseUrl(request.url.v).ok
    THEN [valid |-> FALSE, error |-> "Malformed URL"]
    ELSE IF ~isAllowedDomain(ParseUrl(request.url.v).hostname)
    THEN [valid |-> FALSE, error |-> "Domain not allowed"]
    ELSE IF ParseUrl(request.url.v).protocol # <<"https", ":">>
    THEN [valid |-> FALSE, error |-> "Only HTTPS URLs are allowed"]
    ELSE [valid |-> TRUE, error |-> ""]


(***************************************************************************)
(* State                                                                   *)
(***************************************************************************)
VARIABLES
    \* timers and suspended calls of all three scripts
    timers,         \* pending setTimeout/setInterval timers, oldest first
    awaits,         \* calls in flight: messages, responses, platform promises,
                    \* queued events
    effects,        \* what the last step did to the outside: notifications,
                    \* platform calls, responses, resets, extractions
    \* the page the content script runs in
    location,       \* window.location
    doc,            \* the document, as the extractor and the injector see it
    readyState,     \* document.readyState
    stored,         \* autoInject in chrome.storage.sync
    containers,     \* elements with id vsix-downloader-container in the page
    \* content script (VSIXDownloader)
    extensionData,  \* this.extensionData
    observer,       \* this.observer is set
    isProcessing,   \* this.isProcessing
    isInjected,     \* this.isInjected
    retryAttempts,  \* this.retryAttempts
    debounceTimers, \* this.debounceTimers: key -> timer id (0: no entry)
    lastUrl,        \* lastUrl of setupNavigationWatchers
    listeners,      \* event listeners the script has registered
    \* history of the page view
    extractions,    \* runs of extractMetadata since the last reset
    seenUrl,        \* the address at construction or at the last reset
    burst,          \* mutation events delivered since the last debounced
                    \* check, and the time since the last of them
    \* popup (PopupManager)
    popupData,      \* this.extensionData (NullData before the fetch)
    \* buttons of the content script and of the popup
    disabled,       \* button.disabled
    sinceClick,     \* time since the click that disabled it (-1: enabled)
    sinceSettled,   \* time since the action of that click ended (-1: not yet)
    \* background service worker
    bgDownloads,    \* state.downloads
    bgSettings,     \* state.settings
    downloadIds,    \* ids the platform has handed out
    items,          \* the platform's download items: id to state
    \* sanitizeFilename on its own
    sanIn,          \* the argument of the last call
    sanOut,         \* what it returned
    \* scripts pasted in the console of a listing page
    tableData,      \* what the page's metadata table and address give
    legacyButton,   \* the button of the legacy script
    enhancedPanel,  \* the enhanced script's container is on the page
    \* popup to content script messaging (sendMessageWithRetry)
    bridge,         \* the promise, the attempt in progress, the sends made
    \* a resolver function on its own
    probe           \* the last call: function, arguments, result

pageVars == <<location, doc, readyState, stored>>
scriptVars == <<extensionData, observer, isProcessing, isInjected, retryAttempts,
                debounceTimers, lastUrl, listeners>>
histVars == <<extractions, seenUrl, burst>>
contentVars == <<pageVars, containers, scriptVars, histVars>>
btnVars == <<disabled, sinceClick, sinceSettled>>
uiVars == <<popupData, btnVars>>
bgVars == <<bgDownloads, bgSettings, downloadIds, items>>
sanVars == <<sanIn, sanOut>>
consoleVars == <<tableData, legacyButton, enhancedPanel>>
extraVars == <<consoleVars, bridge, probe>>
vars == <<timers, awaits, effects, contentVars, uiVars, bgVars, sanVars,
          extraVars>>

(***************************************************************************)
(* Delays of the program                                                   *)
(***************************************************************************)
maxRetries == 5
retryDelay == 1000
DomReadyDelay == 100
WindowLoadDelay == 200
NavigationDelay == 500
MutationDelay == 1000
UrlCheckPeriod == 500
UrlCheckLifetime == 30000
ReenableDelay == 1000
CompleteCleanupDelay == 60000
InterruptedCleanupDelay == 5000

\* Math.pow(2, n)
RECURSIVE Pow2(_)
Pow2(n) == IF n = 0 THEN 1 ELSE 2 * Pow2(n - 1)

(***************************************************************************)
(* Bounds of the timed model                                               *)
(***************************************************************************)
\* between two deadlines, time is observed every TickStep units
TickStep == 500
\* mutation events counted in one burst: one, or several
MaxBurst == 2

(***************************************************************************)
(* Timers and time                                                         *)
(***************************************************************************)
TimerIds(ts) == {ts[i].id : i \in 1..Len(ts)}

\* the id the platform gives the next timer
NextId(ts) ==
    CHOOSE n \in 1..(Len(ts) + 1) :
        n \notin TimerIds(ts) /\ \A m \in 1..(n - 1) : m \in TimerIds(ts)

\* setTimeout(callback, delay)
WithTimer(ts, kind, arg, delay) ==
    Append(ts, [id |-> NextId(ts), kind |-> kind, arg |-> arg, left |-> delay])

clearTimeout(ts, id) ==
    LET Other(t) == t.id # id
    IN SelectSeq(ts, Other)

\* clearInterval(urlCheckInterval)
clearInterval(ts) ==
    LET Other(t) == t.kind # "interval"
    IN SelectSeq(ts, Other)

Due == {i \in 1..Len(timers) : timers[i].left = 0}
FirstDue == CHOOSE i \in Due : \A j \in Due : i <= j

\* the platform's items with one more, or with one in a new state
WithItem(its, id, st) == [k \in DOMAIN its \cup {id} |-> IF k = id THEN st ELSE its[k]]

\* the sequence without its i-th element
RemoveAt(q, i) == SubSeq(q, 1, i - 1) \o SubSeq(q, i + 1, Len(q))

MinLeft == CHOOSE d \in {timers[i].left : i \in 1..Len(timers)} :
              \A i \in 1..Len(timers) : d <= timers[i].left

\* how far time may advance in one step: to the next deadline, or by one
\* TickStep when that is sooner
TickChoices ==
    IF Len(timers) = 0 THEN {TickStep}
    ELSE {d \in {TickStep, MinLeft} : d > 0 /\ d <= MinLeft}

AgeCap == ReenableDelay + TickStep

Aged(age, d) == IF age < 0 THEN age ELSE IF age + d > AgeCap THEN AgeCap ELSE age + d

Pending(kind, arg) == {i \in 1..Len(timers) : timers[i].kind = kind /\ timers[i].arg = arg}

(***************************************************************************)
(* debounce                                                                *)
(***************************************************************************)
DebounceKeys == {"domReady", "windowLoad", "navigation", "mutation"}
NoDebounce == [k \in DebounceKeys |-> 0]

\* a debounce that leaves the timer of the key running
KeepTimers(ts, dt, key) == ts

\* if (this.debounceTimers.has(key)) clearTimeout(this.debounceTimers.get(key))
DebounceCleared(ts, dt, key) ==
    IF dt[key] # 0 THEN clearTimeout(ts, dt[key]) ELSE ts

\* debounce(key, callback, delay): the timers and the map after it
debounce(ts, dt, key, delay) ==
    LET cleared == DebounceCleared(ts, dt, key)
    IN [timers |-> WithTimer(cleared, "debounce", key, delay),
        map |-> [dt EXCEPT ![key] = NextId(cleared)]]

(***************************************************************************)
(* The page                                                                *)
(***************************************************************************)
Listing(name) == [path |-> "items", itemName |-> Str(name)]
NonListing == [path |-> "search", itemName |-> NoParam]

isValidPage(loc) == loc.path = "items" /\ loc.itemName # NoParam

NoState == [present |-> FALSE, extension |-> Undefined, item |-> Undefined,
            data |-> Undefined]

\* a document that shows no version yet; one whose version element has been
\* rendered; one without any of the injection targets
DocBare == [scripts |-> <<>>, selected |-> <<>>, cells |-> <<>>, state |-> NoState,
            target |-> TRUE]
DocVersioned == [DocBare EXCEPT !.selected = << <<"1", ".", "2", ".", "3">> >>]
DocNoTarget == [DocVersioned EXCEPT !.target = FALSE]

\* findInjectionTarget() returns an element
findInjectionTarget(d) == d.target

(***************************************************************************)
(* Buttons: the three injected by the content script, the three of the     *)
(* popup                                                                   *)
(***************************************************************************)
InjectedButtons == {"vsix", "vsixpackage", "copy"}
PopupDownloadButtons == {"downloadVsix", "downloadPackage"}
PopupButtons == PopupDownloadButtons \cup {"copyUrl"}
Buttons == InjectedButtons \cup PopupButtons
\* buttons that may be busy at once
MaxBusy == 1

NullData == [null |-> TRUE]

Busy == {b \in Buttons : disabled[b]}

\* button.disabled = true; settled: the action of the click has ended too
Disable(b, settled) ==
    /\ disabled' = [disabled EXCEPT ![b] = TRUE]
    /\ sinceClick' = [sinceClick EXCEPT ![b] = 0]
    /\ sinceSettled' = [sinceSettled EXCEPT ![b] = IF settled THEN 0 ELSE -1]

\* the text of copyUrls and handleCopyUrl, by its two URLs
CopyText(label, publisher, extension, version) ==
    [label |-> label, version |-> version,
     vsixUrl |-> VsixUrl(publisher, extension, version),
     packageUrl |-> PackageUrl(publisher, extension, version)]

\* showNotification(message, type) and showStatus(type, title, ...): what is
\* shown; how long it stays is not part of the model
Note(type, text) == [kind |-> "notification", type |-> type, text |-> text]
Status(type, title) == [kind |-> "status", type |-> type, title |-> title]

(***************************************************************************)
(* Content script: construction                                            *)
(***************************************************************************)
\* setupPageLoadHandlers at the given readyState (the script is constructed
\* once the DOM is ready): the timers and the map after it
setupPageLoadHandlers(rs) == debounce(<<>>, NoDebounce, "domReady", DomReadyDelay)

\* the listeners init registers
InitialListeners(rs) ==
    {"message", "popstate"} \cup (IF rs # "complete" THEN {"load"} ELSE {})

\* setupNavigationWatchers: the interval and the timer that clears it
setupNavigationWatchers(ts) ==
    WithTimer(WithTimer(ts, "interval", "urlCheck", UrlCheckPeriod),
              "clearInterval", "urlCheck", UrlCheckLifetime)

\* the state new VSIXDownloader() leaves, on the page loc
Constructed(loc, rs) ==
    /\ location = loc
    /\ readyState = rs
    /\ containers = 0
    /\ extensionData = EmptyData
    /\ observer = FALSE
    /\ isProcessing = FALSE
    /\ isInjected = FALSE
    /\ retryAttempts = 0
    /\ lastUrl = loc
    /\ extractions = 0
    /\ seenUrl = loc
    /\ burst = [events |-> 0, since |-> -1]
    /\ IF isValidPage(loc)
       THEN /\ listeners = InitialListeners(rs)
            /\ timers = setupNavigationWatchers(setupPageLoadHandlers(rs).timers)
            /\ debounceTimers = setupPageLoadHandlers(rs).map
       ELSE /\ listeners = {}
            /\ timers = <<>>
            /\ debounceTimers = NoDebounce

\* the state of a listing page long after it opened: the first cycle found the
\* descriptor complete, the settings read has returned (failed: it threw),
\* the URL check has been cleared
Settled(loc, d, failed) ==
    /\ location = loc
    /\ doc = d
    /\ readyState = "complete"
    /\ extensionData = extractMetadata(EmptyData, loc, d)
    /\ observer = TRUE
    /\ isProcessing = FALSE
    /\ isInjected = ((failed \/ stored) /\ findInjectionTarget(d))
    /\ containers = IF isInjected THEN 1 ELSE 0
    /\ retryAttempts = 0
    /\ lastUrl = loc
    /\ extractions = 1
    /\ seenUrl = loc
    /\ burst = [events |-> 0, since |-> -1]
    /\ listeners = InitialListeners("complete")
    /\ timers = <<>>
    /\ debounceTimers = NoDebounce

(***************************************************************************)
(* Content script: startProcessing, checkAutoInject,                       *)
(* injectDownloadButtons, setupDOMObserver                                 *)
(***************************************************************************)
Counted(n) == IF n > maxRetries + 1 THEN n ELSE n + 1

\* a lookup that never finds the element
NeverRendered(panel, n) == FALSE

\* document.getElementById('vsix-downloader-container') finds an element: the
\* enhanced script's container or one of the content script's
AlreadyRendered(panel, n) == panel \/ n > 0

\* the MutationObserver callback after a change of the page, when an
\* observer is connected: debounce('mutation', check, 1000)
ObserverCallback(ts) ==
    IF observer
    THEN /\ timers' = debounce(ts, debounceTimers, "mutation", MutationDelay).timers
         /\ debounceTimers' = debounce(ts, debounceTimers, "mutation", MutationDelay).map
         /\ burst' = [events |-> IF burst.events < MaxBurst THEN burst.events + 1
                                 ELSE burst.events,
                      since |-> 0]
    ELSE /\ timers' = ts
         /\ UNCHANGED <<debounceTimers, burst>>

\* a retry whatever the counter
AlwaysRetries(attempts) == TRUE

\* this.retryAttempts < this.maxRetries
CanRetry(attempts) == attempts < maxRetries

\* every retry after the same delay
FlatBackoff(attempts) == retryDelay

\* this.retryDelay * Math.pow(2, this.retryAttempts - 1), the counter already
\* incremented
RetryBackoff(attempts) == retryDelay * Pow2(attempts - 1)

\* startProcessing up to its first suspension.  ts: the timers, processing:
\* this.isProcessing, as the caller leaves them; data: what extractMetadata
\* makes of the descriptor
startProcessing(ts, processing, data) ==
    IF processing
    THEN /\ timers' = ts
         /\ isProcessing' = processing
         /\ effects' = {}
         /\ UNCHANGED <<awaits, extensionData, retryAttempts, observer, extractions>>
    ELSE LET attempts == retryAttempts + 1
         IN /\ extensionData' = data
            /\ extractions' = Counted(extractions)
            /\ effects' = {[kind |-> "extraction", complete |-> hasValidData(data)]}
            /\ IF hasValidData(data)
               THEN IF isInjected
                    THEN \* checkAutoInject returns at once
                         /\ observer' = TRUE
                         /\ isProcessing' = FALSE
                         /\ timers' = ts
                         /\ UNCHANGED <<awaits, retryAttempts>>
                    ELSE \* suspended on chrome.storage.sync.get
                         /\ awaits' = Append(awaits, [op |-> "storageGet",
                                                      by |-> "startProcessing"])
                         /\ isProcessing' = TRUE
                         /\ timers' = ts
                         /\ UNCHANGED <<observer, retryAttempts>>
               ELSE IF CanRetry(retryAttempts)
               THEN /\ retryAttempts' = attempts
                    /\ timers' = WithTimer(ts, "retry", "startProcessing",
                                           RetryBackoff(attempts))
                    /\ isProcessing' = (attempts < maxRetries)
                    /\ UNCHANGED <<awaits, observer>>
               ELSE /\ timers' = ts
                    /\ isProcessing' = FALSE
                    /\ UNCHANGED <<awaits, retryAttempts, observer>>

\* a gate that lets every cycle inject
AlwaysInject(ok, autoInject) == TRUE

\* checkAutoInject after its await: injectDownloadButtons is called when the
\* read gave a true autoInject, and from the catch block when it threw
checkAutoInject(ok, autoInject) == ~ok \/ autoInject

\* every caller of checkAutoInject goes on as startProcessing does
AnyoneResumes(by) == TRUE

\* the caller that awaited checkAutoInject is startProcessing, which goes on
\* with setupDOMObserver and its finally block; the watcher's callback ends
ResumesCycle(by) == by = "startProcessing"

\* chrome.storage.sync.get settles (ok) or throws; checkAutoInject resumes,
\* and after it the cycle that awaited it
StorageGetSettles ==
    \E i \in 1..Len(awaits), ok \in BOOLEAN :
        LET injects == /\ checkAutoInject(ok, stored)
                       /\ ~isInjected /\ ~AlreadyRendered(enhancedPanel, containers)
                       /\ hasValidData(extensionData)
                       /\ findInjectionTarget(doc)
            resumed == ResumesCycle(awaits[i].by)
        IN /\ awaits[i].op = "storageGet"
           /\ awaits' = RemoveAt(awaits, i)
           /\ containers' = IF injects THEN containers + 1 ELSE containers
           /\ isInjected' = (isInjected \/ injects)
           /\ effects' = (IF injects THEN {[kind |-> "inject"]} ELSE {})
                          \cup (IF ok THEN {}
                                ELSE {[kind |-> "console", text |-> "Settings check error"]})
           /\ IF injects THEN ObserverCallback(timers)
              ELSE UNCHANGED <<timers, debounceTimers, burst>>
           /\ observer' = IF resumed /\ hasValidData(extensionData) THEN TRUE ELSE observer
           /\ isProcessing' =
                 IF resumed /\ (retryAttempts >= maxRetries \/ hasValidData(extensionData))
                 THEN FALSE ELSE isProcessing
           /\ UNCHANGED <<pageVars, extensionData, retryAttempts, lastUrl, listeners,
                          extractions, seenUrl, uiVars, bgVars, sanVars, extraVars>>

(***************************************************************************)
(* Content script: handleNavigation, resetState                            *)
(***************************************************************************)
\* handleNavigation(); ts: the timers as the caller leaves them
handleNavigation(ts) ==
    /\ containers' = IF containers > 0 THEN containers - 1 ELSE 0
    /\ extensionData' = EmptyData
    /\ isInjected' = FALSE
    /\ isProcessing' = FALSE
    /\ retryAttempts' = 0
    /\ observer' = FALSE
    /\ extractions' = 0
    /\ seenUrl' = location
    /\ effects' = {[kind |-> "reset"]}
    /\ IF isValidPage(location)
       THEN /\ timers' = debounce(ts, debounceTimers, "navigation", NavigationDelay).timers
            /\ debounceTimers' = debounce(ts, debounceTimers, "navigation", NavigationDelay).map
       ELSE /\ timers' = ts
            /\ UNCHANGED debounceTimers

\* currentUrl !== lastUrl
UrlChanged(currentUrl, last) == currentUrl # last

(***************************************************************************)
(* Scripts pasted in the console: the legacy script                        *)
(***************************************************************************)
LegacySuccessDelay == 2000
LegacyErrorDelay == 3000

\* the page before a console script ran
NoTable == [version |-> <<>>, publisher |-> <<>>, identifier |-> <<>>,
            container |-> FALSE]
NoButton == [present |-> FALSE, onclick |-> "null", label |-> "",
             url |-> <<>>, filename |-> <<>>]

\* const [publisher, extension] = identifier.split('.'); a missing part is
\* substituted as the text 'undefined'
PartOrUndefined(parts, i) == IF i <= Len(parts) THEN parts[i] ELSE <<"undefined">>

\* getDownloadUrl of the console scripts: the templates, nothing encoded
getDownloadUrl(identifier, version, type) ==
    LET publisher == PartOrUndefined(SplitDot(identifier), 1)
        extension == PartOrUndefined(SplitDot(identifier), 2)
    IN IF type = "vsix"
       THEN <<"https", ":", "/", "/">> \o publisher \o <<".">> \o GalleryHost
            \o <<"/", "_apis", "/", "public", "/", "gallery", "/", "publisher", "/">>
            \o publisher \o <<"/", "extension", "/">> \o extension \o <<"/">> \o version
            \o <<"/", "assetbyname", "/", "Microsoft.VisualStudio.Services.VSIXPackage">>
       ELSE <<"https", ":", "/", "/">> \o MarketplaceHost
            \o <<"/", "_apis", "/", "public", "/", "gallery", "/", "publishers", "/">>
            \o publisher \o <<"/", "vsextensions", "/">> \o extension \o <<"/">> \o version
            \o <<"/", "vspackage">>

\* getFileName of the console scripts; type is the text after the dot
getFileName(identifier, version, type) ==
    identifier \o <<"_">> \o version \o <<".">> \o type

\* createDownloadButton
createDownloadButton(data) ==
    [present |-> TRUE, onclick |-> "handler", label |-> "Download VSIX",
     url |-> getDownloadUrl(data.identifier, data.version, "vsix"),
     filename |-> getFileName(data.identifier, data.version, Tail(DotVsix))]

\* the legacy script runs: it reads the table, validates, appends the button
LegacyScriptRuns ==
    /\ ~legacyButton.present
    /\ tableData.version # <<>> /\ tableData.identifier # <<>>
    /\ tableData.container
    /\ legacyButton' = createDownloadButton(tableData)
    /\ effects' = {}
    /\ UNCHANGED <<timers, awaits, contentVars, uiVars, bgVars, sanVars, tableData,
                   enhancedPanel, bridge, probe>>

\* button.onclick up to xhr.send()
LegacyClick ==
    /\ legacyButton.present /\ legacyButton.onclick = "handler"
    /\ legacyButton' = [legacyButton EXCEPT !.onclick = "null",
                                            !.label = "Downloading..."]
    /\ awaits' = Append(awaits, [op |-> "xhr", url |-> legacyButton.url,
                                 filename |-> legacyButton.filename,
                                 originalText |-> legacyButton.label])
    /\ effects' = {}
    /\ UNCHANGED <<timers, contentVars, uiVars, bgVars, sanVars, tableData,
                   enhancedPanel, bridge, probe>>

\* xhr.onprogress with a computable length
ProgressLabels == {"Downloading... 0%", "Downloading... 50%", "Downloading... 100%"}

XhrProgress ==
    \E i \in 1..Len(awaits), l \in ProgressLabels :
        /\ awaits[i].op = "xhr"
        /\ legacyButton.label # l
        /\ legacyButton' = [legacyButton EXCEPT !.label = l]
        /\ effects' = {}
        /\ UNCHANGED <<timers, awaits, contentVars, uiVars, bgVars, sanVars, tableData,
                       enhancedPanel, bridge, probe>>

\* target.onclick = button.onclick in the timeouts: target is the element the
\* handler was attached to, which is button itself, so the value assigned
\* is the value the property holds when the timeout runs
RestoredOnclick(button) == button.onclick

\* xhr.onload and xhr.onerror
XhrOutcomes == {"200", "404", "error"}

XhrSettles ==
    \E i \in 1..Len(awaits), outcome \in XhrOutcomes :
        /\ awaits[i].op = "xhr"
        /\ awaits' = RemoveAt(awaits, i)
        /\ legacyButton' =
              [legacyButton EXCEPT !.label = CASE outcome = "200" -> "Download Complete"
                                               [] outcome = "error" -> "Network Error"
                                               [] OTHER -> "Error - Retry"]
        /\ timers' = WithTimer(timers, "restore", awaits[i].originalText,
                               IF outcome = "200" THEN LegacySuccessDelay
                               ELSE LegacyErrorDelay)
        /\ effects' = IF outcome = "200"
                      THEN {[kind |-> "save", filename |-> awaits[i].filename]}
                      ELSE {}
        /\ UNCHANGED <<contentVars, uiVars, bgVars, sanVars, tableData,
                   enhancedPanel, bridge, probe>>

\* the callback of the timeout armed by onload and onerror
LegacyRestore(t, rest) ==
    /\ timers' = rest
    /\ legacyButton' = [legacyButton EXCEPT !.label = t.arg,
                                            !.onclick = RestoredOnclick(legacyButton)]
    /\ effects' = {}
    /\ UNCHANGED <<awaits, contentVars, uiVars, bgVars, sanVars, tableData,
                   enhancedPanel, bridge, probe>>

(***************************************************************************)
(* Scripts pasted in the console: the enhanced script                      *)
(***************************************************************************)
\* Utils.validateExtensionData: no required field is missing
validateExtensionData(data) ==
    data.version # <<>> /\ data.publisher # <<>> /\ data.identifier # <<>>

\* ExtensionManager.extractMetadata: the cells of the table, then
\* validateExtensionData, which throws when a required field is missing
enhancedExtractMetadata(table) ==
    IF validateExtensionData(table)
    THEN [threw |-> FALSE, error |-> "", data |-> table]
    ELSE [threw |-> TRUE, error |-> "Missing required fields", data |-> table]

\* init: extractMetadata with validateExtensionData, then render, which
\* returns at once when the page has a container already
EnhancedScriptRuns ==
    LET rendered == AlreadyRendered(enhancedPanel, containers)
        inserts == /\ ~enhancedExtractMetadata(tableData).threw
                   /\ ~rendered /\ tableData.container
    IN /\ enhancedPanel' = (enhancedPanel \/ inserts)
       /\ effects' = IF enhancedExtractMetadata(tableData).threw
                     THEN {Note("error", enhancedExtractMetadata(tableData).error)}
                     ELSE IF rendered
                     THEN {[kind |-> "console", text |-> "VSIX Downloader already rendered"]}
                     ELSE IF ~tableData.container
                     THEN {Note("error", "Target container not found")}
                     ELSE {Note("success", "VSIX Downloader loaded successfully!")}
       /\ IF inserts THEN ObserverCallback(timers)
          ELSE UNCHANGED <<timers, debounceTimers, burst>>
       /\ UNCHANGED <<awaits, pageVars, containers, extensionData, observer, isProcessing,
                      isInjected, retryAttempts, lastUrl, listeners, extractions, seenUrl,
                      uiVars, bgVars, sanVars, tableData, legacyButton, bridge, probe>>

\* a text that is one URL and nothing else (CopyText: a text and its parts)
UrlText(url) == [vsixUrl |-> url]

\* the Copy URL button: getDownloadUrl('vsix') goes to Utils.copyToClipboard
EnhancedClickCopy ==
    /\ enhancedPanel
    /\ Len(awaits) < MaxAwaits
    /\ awaits' = Append(awaits, [op |-> "clipboard", by |-> "enhanced",
                                 text |-> UrlText(getDownloadUrl(tableData.identifier,
                                                                 tableData.version,
                                                                 "vsix"))])
    /\ effects' = {}
    /\ UNCHANGED <<timers, contentVars, uiVars, bgVars, sanVars, consoleVars, bridge, probe>>

\* Utils.copyToClipboard after its await: a notification on success, a line
\* on the console otherwise
EnhancedClipboardSettled ==
    \E i \in 1..Len(awaits), ok \in BOOLEAN :
        /\ awaits[i].op = "clipboard" /\ awaits[i].by = "enhanced"
        /\ awaits' = RemoveAt(awaits, i)
        /\ effects' = IF ok THEN {Note("success", "Copied to clipboard!"),
                                  [kind |-> "clipboard", text |-> awaits[i].text]}
                      ELSE {[kind |-> "console", text |-> "Failed to copy"]}
        /\ UNCHANGED <<timers, contentVars, uiVars, bgVars, sanVars, consoleVars, bridge,
                       probe>>

(***************************************************************************)
(* Popup: sendMessageWithRetry under fetchExtensionData                    *)
(***************************************************************************)
popupMaxRetries == 3
BackoffBase == 300

\* a sender that never gives up
KeepsTrying(attempt) == TRUE

\* attempt < this.maxRetries
MayRetry(attempt) == attempt < popupMaxRetries

\* 300 * Math.pow(2, attempt - 1)
BackoffDelay(attempt) == BackoffBase * Pow2(attempt - 1)

\* chrome.tabs.sendMessage of the attempt
TabMessage(attempt) == [op |-> "tabMessage", attempt |-> attempt]

\* fetchExtensionData up to its await: the first attempt is sent
PopupSendMessage ==
    /\ bridge.state = "idle"
    /\ popupData = NullData
    /\ isValidPage(location)
    /\ bridge' = [bridge EXCEPT !.state = "pending", !.attempt = 1, !.sends = 1]
    /\ awaits' = Append(awaits, TabMessage(1))
    /\ effects' = {Status("active", "Loading...")}
    /\ UNCHANGED <<timers, contentVars, uiVars, bgVars, sanVars, consoleVars, probe>>

\* the callback of chrome.tabs.sendMessage: with the content script's answer
\* (ok), or with chrome.runtime.lastError set; then, when the promise
\* settles, the rest of fetchExtensionData
TabMessageAnswered ==
    \E i \in 1..Len(awaits), ok \in BOOLEAN :
        /\ awaits[i].op = "tabMessage"
        /\ ok => "message" \in listeners
        /\ awaits' = RemoveAt(awaits, i)
        /\ UNCHANGED <<contentVars, btnVars, bgVars, sanVars, consoleVars, probe>>
        /\ IF ok
           THEN /\ bridge' = [bridge EXCEPT !.state = "resolved"]
                /\ popupData' = IF hasValidData(extensionData) THEN extensionData
                                ELSE popupData
                /\ effects' = IF hasValidData(extensionData)
                              THEN {Status("success", "Extension Detected")}
                              ELSE {Status("warning", "Extension Not Detected")}
                /\ UNCHANGED timers
           ELSE IF MayRetry(awaits[i].attempt)
           THEN /\ timers' = WithTimer(timers, "resend", "getExtensionData",
                                       BackoffDelay(awaits[i].attempt))
                /\ bridge' = [bridge EXCEPT !.failures = @ + 1,
                                 !.waited = Append(@, BackoffDelay(awaits[i].attempt))]
                /\ effects' = {}
                /\ UNCHANGED popupData
           ELSE /\ bridge' = [bridge EXCEPT !.state = "rejected", !.failures = @ + 1,
                                 !.error = "Content script not responding"]
                /\ effects' = {Status("error", "Content Script Error")}
                /\ UNCHANGED <<timers, popupData>>

\* the callback of the backoff timer: sendMessageWithRetry(attempt + 1)
Resend(t, rest) ==
    /\ timers' = rest
    /\ bridge' = [bridge EXCEPT !.attempt = @ + 1, !.sends = @ + 1]
    /\ awaits' = Append(awaits, TabMessage(bridge.attempt + 1))
    /\ effects' = {}
    /\ UNCHANGED <<contentVars, uiVars, bgVars, sanVars, consoleVars, probe>>

(***************************************************************************)
(* Timers fire; time passes                                                *)
(***************************************************************************)
\* the callback of a re-enable timer
Reenable(t, rest) ==
    /\ timers' = rest
    /\ disabled' = [disabled EXCEPT ![t.arg] = FALSE]
    /\ sinceClick' = [sinceClick EXCEPT ![t.arg] = -1]
    /\ sinceSettled' = [sinceSettled EXCEPT ![t.arg] = -1]
    /\ effects' = {}
    /\ UNCHANGED <<awaits, contentVars, popupData, bgVars, sanVars, extraVars>>

\* the callback of a debounce timer: the entry is deleted, the callback runs
DebounceFires(t, rest) ==
    /\ debounceTimers' = [debounceTimers EXCEPT ![t.arg] = 0]
    /\ UNCHANGED <<pageVars, containers, isInjected, lastUrl, listeners, seenUrl,
                   uiVars, bgVars, sanVars, extraVars>>
    /\ IF t.arg = "mutation"
       THEN \* re-check if the buttons are still present
            /\ timers' = rest
            /\ burst' = [events |-> 0, since |-> -1]
            /\ effects' = {[kind |-> "check", events |-> burst.events,
                            after |-> burst.since]}
            /\ awaits' = IF ~AlreadyRendered(enhancedPanel, containers) /\ ~isInjected
                         THEN Append(awaits, [op |-> "storageGet", by |-> "mutation"])
                         ELSE awaits
            /\ UNCHANGED <<extensionData, observer, isProcessing, retryAttempts,
                           extractions>>
       ELSE /\ startProcessing(rest, isProcessing, extractMetadata(extensionData, location, doc))
            /\ UNCHANGED burst

\* the callback of a retry timer
RetryFires(t, rest) ==
    /\ startProcessing(rest, FALSE, extractMetadata(extensionData, location, doc))
    /\ UNCHANGED <<pageVars, containers, isInjected, debounceTimers, lastUrl, listeners,
                   seenUrl, burst, uiVars, bgVars, sanVars, extraVars>>

\* the callback of the URL check; the interval stays armed
UrlCheck(t, rearmed) ==
    /\ UNCHANGED <<awaits, pageVars, listeners, burst, uiVars, bgVars, sanVars, extraVars>>
    /\ IF UrlChanged(location, lastUrl)
       THEN /\ lastUrl' = location
            /\ handleNavigation(rearmed)
       ELSE /\ timers' = rearmed
            /\ effects' = {}
            /\ UNCHANGED <<containers, extensionData, observer, isProcessing, isInjected,
                           retryAttempts, debounceTimers, lastUrl, extractions, seenUrl>>

\* the callback of the timer that ends the URL check
ClearUrlCheck(t, rest) ==
    /\ timers' = clearInterval(rest)
    /\ effects' = {}
    /\ UNCHANGED <<awaits, contentVars, uiVars, bgVars, sanVars, extraVars>>

\* the callback of the clean-up timer: state.downloads.delete(downloadId)
CleanupFires(t, rest) ==
    /\ timers' = rest
    /\ bgDownloads' = [k \in DOMAIN bgDownloads \ {t.arg} |-> bgDownloads[k]]
    /\ effects' = {}
    /\ UNCHANGED <<awaits, contentVars, uiVars, bgSettings, downloadIds, items, sanVars,
                   extraVars>>

\* the callback of the oldest due timer
FireTimer ==
    /\ Due # {}
    /\ LET t == timers[FirstDue]
           rest == RemoveAt(timers, FirstDue)
       IN CASE t.kind = "enable" -> Reenable(t, rest)
            [] t.kind = "debounce" -> DebounceFires(t, rest)
            [] t.kind = "retry" -> RetryFires(t, rest)
            [] t.kind = "interval" ->
                  UrlCheck(t, [timers EXCEPT ![FirstDue].left = UrlCheckPeriod])
            [] t.kind = "clearInterval" -> ClearUrlCheck(t, rest)
            [] t.kind = "restore" -> LegacyRestore(t, rest)
            [] t.kind = "resend" -> Resend(t, rest)
            [] t.kind = "cleanup" -> CleanupFires(t, rest)

Tick ==
    \E d \in TickChoices :
        /\ timers' = [i \in 1..Len(timers) |-> [timers[i] EXCEPT !.left = @ - d]]
        /\ sinceClick' = [b \in Buttons |-> Aged(sinceClick[b], d)]
        /\ sinceSettled' = [b \in Buttons |-> Aged(sinceSettled[b], d)]
        /\ burst' = [burst EXCEPT !.since = Aged(@, d)]
        /\ effects' = {}
        /\ UNCHANGED <<awaits, pageVars, containers, scriptVars, extractions, seenUrl,
                       popupData, disabled, bgVars, sanVars, extraVars>>

(***************************************************************************)
(* The page and its user                                                   *)
(***************************************************************************)
\* the window's load event
WindowLoad ==
    /\ readyState = "interactive"
    /\ readyState' = "complete"
    /\ effects' = {}
    /\ IF "load" \in listeners
       THEN /\ timers' = debounce(timers, debounceTimers, "windowLoad", WindowLoadDelay).timers
            /\ debounceTimers' = debounce(timers, debounceTimers, "windowLoad", WindowLoadDelay).map
       ELSE UNCHANGED <<timers, debounceTimers>>
    /\ UNCHANGED <<awaits, location, doc, stored, containers, extensionData, observer,
                   isProcessing, isInjected, retryAttempts, lastUrl, listeners,
                   histVars, uiVars, bgVars, sanVars, extraVars>>

\* the page renders the element that shows the version
PageRenders ==
    /\ doc = DocBare
    /\ doc' = DocVersioned
    /\ effects' = {}
    /\ ObserverCallback(timers)
    /\ UNCHANGED <<awaits, location, readyState, stored, containers, extensionData,
                   observer, isProcessing, isInjected, retryAttempts, lastUrl, listeners,
                   extractions, seenUrl, uiVars, bgVars, sanVars, extraVars>>

\* a document whose version element shows a newer version
DocUpdated == [DocBare EXCEPT !.selected = << <<"2", ".", "0", ".", "0">> >>]

\* the page replaces the text of its version element
HostUpdatesVersion ==
    /\ doc = DocVersioned
    /\ doc' = DocUpdated
    /\ effects' = {}
    /\ ObserverCallback(timers)
    /\ UNCHANGED <<awaits, location, readyState, stored, containers, extensionData,
                   observer, isProcessing, isInjected, retryAttempts, lastUrl, listeners,
                   extractions, seenUrl, uiVars, bgVars, sanVars, extraVars>>

\* the page changes some element
MutationEvent ==
    /\ observer
    /\ Len(awaits) < MaxAwaits
    /\ effects' = {}
    /\ ObserverCallback(timers)
    /\ UNCHANGED <<awaits, pageVars, containers, extensionData, observer, isProcessing,
                   isInjected, retryAttempts, lastUrl, listeners, extractions, seenUrl,
                   uiVars, bgVars, sanVars, extraVars>>

\* the page replaces the subtree that holds the container
HostRemovesContainer ==
    /\ containers > 0
    /\ Len(awaits) < MaxAwaits
    /\ containers' = 0
    /\ effects' = {}
    /\ ObserverCallback(timers)
    /\ UNCHANGED <<awaits, pageVars, extensionData, observer, isProcessing, isInjected,
                   retryAttempts, lastUrl, listeners, extractions, seenUrl,
                   uiVars, bgVars, sanVars, extraVars>>

\* the page removes, or renders, the elements the injector looks for
HostRenders ==
    /\ doc \in {DocVersioned, DocNoTarget}
    /\ Len(awaits) < MaxAwaits
    /\ doc' = IF doc = DocVersioned THEN DocNoTarget ELSE DocVersioned
    /\ effects' = {}
    /\ ObserverCallback(timers)
    /\ UNCHANGED <<awaits, location, readyState, stored, containers, extensionData,
                   observer, isProcessing, isInjected, retryAttempts, lastUrl, listeners,
                   extractions, seenUrl, uiVars, bgVars, sanVars, extraVars>>

\* the listing pages the user moves between
Locations == {Listing(<<"p", ".", "e">>), Listing(<<"x", ".", "e">>)}

\* back or forward in the history: the address changes, a popstate event
\* is queued
PopState ==
    /\ Len(awaits) < MaxAwaits
    /\ \E loc \in Locations \ {location} : location' = loc
    /\ awaits' = Append(awaits, [op |-> "popstate"])
    /\ effects' = {}
    /\ UNCHANGED <<timers, doc, readyState, stored, containers, scriptVars, histVars,
                   uiVars, bgVars, sanVars, extraVars>>

\* the popstate event reaches the listener
PopStateDispatched ==
    \E i \in 1..Len(awaits) :
        /\ awaits[i].op = "popstate"
        /\ awaits' = RemoveAt(awaits, i)
        /\ UNCHANGED <<pageVars, lastUrl, listeners, burst, uiVars, bgVars, sanVars, extraVars>>
        /\ IF "popstate" \in listeners
           THEN handleNavigation(timers)
           ELSE /\ effects' = {}
                /\ UNCHANGED <<timers, containers, extensionData, observer, isProcessing,
                               isInjected, retryAttempts, debounceTimers, extractions,
                               seenUrl>>

\* history.pushState by the page: the address changes, no event
PushState ==
    /\ Len(awaits) < MaxAwaits
    /\ \E loc \in Locations \ {location} : location' = loc
    /\ effects' = {}
    /\ UNCHANGED <<timers, awaits, doc, readyState, stored, containers, scriptVars,
                   histVars, uiVars, bgVars, sanVars, extraVars>>

(***************************************************************************)
(* Content script: handleButtonClick, performAction, downloadFile,         *)
(* copyUrls                                                                *)
(***************************************************************************)
\* the message downloadFile sends
DownloadMessage(publisher, extension, version, type) ==
    [action |-> Str("download"),
     url |-> Str(IF type = "vsix" THEN VsixUrl(publisher, extension, version)
                 ELSE PackageUrl(publisher, extension, version)),
     filename |-> Str(publisher \o <<".">> \o extension \o <<"-">> \o version
                      \o (IF type = "vsix" THEN DotVsix ELSE DotVsixPackage))]

\* a finally block that arms the timer only when the action did not throw
ArmedUnlessThrown(ts, b, threw) ==
    IF threw THEN ts ELSE WithTimer(ts, "enable", b, ReenableDelay)

\* the finally block of handleButtonClick: the re-enable timer
ClickFinally(ts, b, threw) == WithTimer(ts, "enable", b, ReenableDelay)

\* a performAction that takes every descriptor for complete
NothingMissing(data) == FALSE

\* performAction: !publisher || !name || !version
MissingFields(data) == data.publisher = <<>> \/ data.name = <<>> \/ data.version = <<>>

\* a click on an injected button; threw: chrome.runtime.sendMessage throws
\* at once, or the clipboard is not there (copyUrls catches that itself)
handleButtonClick(b, threw) ==
    /\ containers > 0
    /\ ~disabled[b]
    /\ IF ~hasValidData(extensionData)
       THEN /\ effects' = {Note("error", "Extension data not available. Please refresh the page.")}
            /\ UNCHANGED <<timers, awaits, btnVars>>
       ELSE /\ Disable(b, TRUE)
            /\ IF MissingFields(extensionData)
               THEN /\ effects' = {Note("error", "Invalid extension data")}
                    /\ timers' = ClickFinally(timers, b, FALSE)
                    /\ UNCHANGED awaits
               ELSE IF threw
               THEN /\ effects' = IF b = "copy" THEN {Note("error", "Failed to copy URLs")}
                                  ELSE {}
                    /\ timers' = ClickFinally(timers, b, b # "copy")
                    /\ UNCHANGED awaits
               ELSE /\ effects' = {}
                    /\ timers' = ClickFinally(timers, b, FALSE)
                    /\ awaits' = Append(awaits,
                         IF b = "copy"
                         THEN [op |-> "clipboard", by |-> "content",
                               text |-> CopyText(extensionData.publisher \o <<".">>
                                                    \o extensionData.name,
                                                 extensionData.publisher, extensionData.name,
                                                 extensionData.version)]
                         ELSE [op |-> "message", from |-> "content",
                               req |-> DownloadMessage(extensionData.publisher,
                                                       extensionData.name,
                                                       extensionData.version, b)])

ContentClick ==
    /\ Len(awaits) < MaxAwaits
    /\ Cardinality(Busy) < MaxBusy
    /\ \E b \in InjectedButtons, threw \in BOOLEAN : handleButtonClick(b, threw)
    /\ UNCHANGED <<contentVars, popupData, bgVars, sanVars, extraVars>>

\* messages of chrome.runtime.lastError
LastErrors == {"Could not establish connection. Receiving end does not exist.",
               "The message port closed before a response was received."}

\* the callback of sendMessage runs with chrome.runtime.lastError set: the
\* message did not reach the background.  The error the platform reported
\* is kept among the effects of the step, with what the callback did
ContentMessageError ==
    \E i \in 1..Len(awaits), cause \in LastErrors :
        /\ awaits[i].op = "message" /\ awaits[i].from = "content"
        /\ awaits' = RemoveAt(awaits, i)
        /\ effects' = {[kind |-> "lastError", message |-> cause],
                       Note("error", "Download failed. Opening in new tab..."),
                       [kind |-> "open", url |-> awaits[i].req.url.v]}
        /\ UNCHANGED <<timers, contentVars, uiVars, bgVars, sanVars, extraVars>>

\* the callback of sendMessage runs with the background's response
ContentResponse ==
    \E i \in 1..Len(awaits) :
        /\ awaits[i].op = "response" /\ awaits[i].to = "content"
        /\ awaits' = RemoveAt(awaits, i)
        /\ effects' = IF awaits[i].resp.success
                      THEN {Note("success", "Download started successfully")}
                      ELSE {Note("error", awaits[i].resp.error),
                            [kind |-> "open", url |-> awaits[i].req.url.v]}
        /\ UNCHANGED <<timers, contentVars, uiVars, bgVars, sanVars, extraVars>>

\* navigator.clipboard.writeText of copyUrls settles
ContentClipboardSettled ==
    \E i \in 1..Len(awaits), ok \in BOOLEAN :
        /\ awaits[i].op = "clipboard" /\ awaits[i].by = "content"
        /\ awaits' = RemoveAt(awaits, i)
        /\ effects' = IF ok THEN {Note("success", "URLs copied to clipboard"),
                                  [kind |-> "clipboard", text |-> awaits[i].text]}
                      ELSE {Note("error", "Failed to copy URLs")}
        /\ UNCHANGED <<timers, contentVars, uiVars, bgVars, sanVars, extraVars>>

(***************************************************************************)
(* Popup: fetchExtensionData, handleDownload, handleCopyUrl                *)
(***************************************************************************)
\* the content script's answer to getExtensionData reaches the popup
PopupFetchExtensionData ==
    /\ popupData = NullData
    /\ "message" \in listeners
    /\ IF hasValidData(extensionData)
       THEN /\ popupData' = extensionData
            /\ effects' = {Status("success", "Extension Detected")}
       ELSE /\ effects' = {Status("warning", "Extension Not Detected")}
            /\ UNCHANGED popupData
    /\ UNCHANGED <<timers, awaits, contentVars, btnVars, bgVars, sanVars, extraVars>>

PopupMissingData ==
    \/ popupData = NullData
    \/ popupData.identifier = <<>>
    \/ popupData.version = <<>>

\* the finally block of handleDownload and handleCopyUrl
PopupFinally(ts, b, failed) == WithTimer(ts, "enable", b, ReenableDelay)

\* identifier.split('.'): publisher and extension as the popup derives them
PopupPublisher(data) == SplitDot(data.identifier)[1]
PopupExtension(data) == JoinDot(Tail(SplitDot(data.identifier)))

PopupUrl(data, type) ==
    IF type = "vsix"
    THEN VsixUrl(PopupPublisher(data), PopupExtension(data), data.version)
    ELSE PackageUrl(PopupPublisher(data), PopupExtension(data), data.version)

PopupFilename(data, type) ==
    data.identifier \o <<"-">> \o data.version
    \o (IF type = "vsix" THEN DotVsix ELSE DotVsixPackage)

\* handleDownload up to its await
handleDownload(type, b) ==
    /\ ~disabled[b]
    /\ UNCHANGED <<contentVars, popupData, bgVars, sanVars, extraVars>>
    /\ IF PopupMissingData
       THEN /\ effects' = {Status("error", "Missing Data")}
            /\ UNCHANGED <<timers, awaits, btnVars>>
       ELSE IF Len(SplitDot(popupData.identifier)) < 2
            THEN \* the throw is caught; the finally block runs at once
                 /\ Disable(b, TRUE)
                 /\ effects' = {Status("error", "Download Failed")}
                 /\ timers' = PopupFinally(timers, b, TRUE)
                 /\ UNCHANGED awaits
            ELSE /\ Disable(b, FALSE)
                 /\ effects' = {[kind |-> "download", by |-> "popup",
                                 url |-> Str(PopupUrl(popupData, type)),
                                 requested |-> Str(PopupFilename(popupData, type)),
                                 filename |-> PopupFilename(popupData, type)]}
                 /\ awaits' = Append(awaits,
                                     [op |-> "download", by |-> "popup", button |-> b])
                 /\ UNCHANGED timers

PopupClickDownload ==
    /\ Len(awaits) < MaxAwaits
    /\ Cardinality(Busy) < MaxBusy
    /\ \/ handleDownload("vsix", "downloadVsix")
       \/ handleDownload("vsixpackage", "downloadPackage")

\* chrome.downloads.download settles and handleDownload resumes
PopupDownloadSettled ==
    \E i \in 1..Len(awaits), ok \in BOOLEAN :
        /\ awaits[i].op = "download" /\ awaits[i].by = "popup"
        /\ ok => Cardinality(downloadIds) < MaxDownloads
        /\ awaits' = RemoveAt(awaits, i)
        /\ downloadIds' = IF ok THEN downloadIds \cup {Cardinality(downloadIds) + 1}
                          ELSE downloadIds
        /\ items' = IF ok THEN WithItem(items, Cardinality(downloadIds) + 1, "in_progress")
                    ELSE items
        /\ effects' = IF ok THEN {Status("success", "Download Started")}
                      ELSE {Status("error", "Download Failed")}
        /\ timers' = PopupFinally(timers, awaits[i].button, ~ok)
        /\ sinceSettled' = [sinceSettled EXCEPT ![awaits[i].button] = 0]
        /\ UNCHANGED <<contentVars, popupData, disabled, sinceClick, bgDownloads,
                       bgSettings, sanVars, extraVars>>

\* handleCopyUrl up to its await
PopupClickCopy ==
    /\ Len(awaits) < MaxAwaits
    /\ Cardinality(Busy) < MaxBusy
    /\ ~disabled["copyUrl"]
    /\ UNCHANGED <<contentVars, popupData, bgVars, sanVars, extraVars>>
    /\ IF PopupMissingData
       THEN /\ effects' = {Status("error", "Missing Data")}
            /\ UNCHANGED <<timers, awaits, btnVars>>
       ELSE IF Len(SplitDot(popupData.identifier)) < 2
            THEN /\ Disable("copyUrl", TRUE)
                 /\ effects' = {Status("error", "Copy Failed")}
                 /\ timers' = PopupFinally(timers, "copyUrl", TRUE)
                 /\ UNCHANGED awaits
            ELSE /\ Disable("copyUrl", FALSE)
                 /\ effects' = {}
                 /\ awaits' = Append(awaits,
                         [op |-> "clipboard", by |-> "popup",
                          text |-> CopyText(popupData.identifier, PopupPublisher(popupData),
                                            PopupExtension(popupData), popupData.version)])
                 /\ UNCHANGED timers

\* navigator.clipboard.writeText settles and handleCopyUrl resumes
PopupClipboardSettled ==
    \E i \in 1..Len(awaits), ok \in BOOLEAN :
        /\ awaits[i].op = "clipboard" /\ awaits[i].by = "popup"
        /\ awaits' = RemoveAt(awaits, i)
        /\ effects' = IF ok THEN {Status("success", "URLs Copied"),
                                  [kind |-> "clipboard", text |-> awaits[i].text]}
                      ELSE {Status("error", "Copy Failed")}
        /\ timers' = PopupFinally(timers, "copyUrl", ~ok)
        /\ sinceSettled' = [sinceSettled EXCEPT !["copyUrl"] = 0]
        /\ UNCHANGED <<contentVars, popupData, disabled, sinceClick, bgVars, sanVars, extraVars>>

(***************************************************************************)
(* Background service worker: handleMessage, handleDownloadRequest,        *)
(* initiateDownload, handleSettingsUpdate                                  *)
(***************************************************************************)
\* sendResponse(...), on its way to the sender
Reply(msg, success, error) ==
    [op |-> "response", to |-> msg.from, req |-> msg.req,
     resp |-> [success |-> success, error |-> error]]

Responded(msg, success) == [kind |-> "response", req |-> msg.req, success |-> success]

\* the call of chrome.downloads.download by initiateDownload
initiateDownload(url, filename) ==
    [kind |-> "download", by |-> "background", url |-> url, requested |-> filename,
     filename |-> sanitizeFilename(filename)]

\* handleMessage for the message awaits[i], each handler up to its await
handleMessage(i) ==
    LET msg == awaits[i]
        request == msg.req
    IN IF request.action.t # "string"
       THEN /\ awaits' = [awaits EXCEPT ![i] = Reply(msg, FALSE, "Invalid message format")]
            /\ effects' = {Responded(msg, FALSE)}
            /\ UNCHANGED bgSettings
       ELSE IF request.action = Str("download")
       THEN IF ~validateDownloadRequest(request).valid
            THEN /\ awaits' = [awaits EXCEPT ![i] =
                                  Reply(msg, FALSE, validateDownloadRequest(request).error)]
                 /\ effects' = {Responded(msg, FALSE)}
                 /\ UNCHANGED bgSettings
            ELSE /\ effects' = {initiateDownload(request.url, request.filename)}
                 /\ awaits' = [awaits EXCEPT ![i] =
                                  [op |-> "download", by |-> "background",
                                   from |-> msg.from, req |-> request]]
                 /\ UNCHANGED bgSettings
       ELSE IF request.action = Str("getSettings")
       THEN /\ awaits' = [awaits EXCEPT ![i] = Reply(msg, TRUE, "")]
            /\ effects' = {Responded(msg, TRUE)}
            /\ UNCHANGED bgSettings
       ELSE IF request.action = Str("updateSettings")
       THEN IF request.settings = NullData
            THEN /\ awaits' = [awaits EXCEPT ![i] = Reply(msg, FALSE, "Invalid settings")]
                 /\ effects' = {Responded(msg, FALSE)}
                 /\ UNCHANGED bgSettings
            ELSE /\ bgSettings' = [bgSettings EXCEPT !.autoInject = request.settings.autoInject]
                 /\ awaits' = [awaits EXCEPT ![i] =
                                  [op |-> "storageSet", from |-> msg.from, req |-> request]]
                 /\ effects' = {}
       ELSE /\ awaits' = [awaits EXCEPT ![i] = Reply(msg, FALSE, "Unknown action")]
            /\ effects' = {Responded(msg, FALSE)}
            /\ UNCHANGED bgSettings

BgHandleMessage ==
    \E i \in 1..Len(awaits) :
        /\ awaits[i].op = "message"
        /\ handleMessage(i)
        /\ UNCHANGED <<timers, contentVars, uiVars, bgDownloads, downloadIds, items, sanVars,
                       extraVars>>

\* state.downloads.set(downloadId, {...})
Tracked(downloads, id, req) ==
    [k \in DOMAIN downloads \cup {id} |->
        IF k = id
        THEN [url |-> req.url, filename |-> req.filename, status |-> "in_progress"]
        ELSE downloads[k]]

\* chrome.downloads.download settles and handleDownloadRequest resumes
BgDownloadSettled ==
    \E i \in 1..Len(awaits), ok \in BOOLEAN :
        LET msg == awaits[i]
            id == Cardinality(downloadIds) + 1
        IN /\ msg.op = "download" /\ msg.by = "background"
           /\ ok => Cardinality(downloadIds) < MaxDownloads
           /\ downloadIds' = IF ok THEN downloadIds \cup {id} ELSE downloadIds
           /\ items' = IF ok THEN WithItem(items, id, "in_progress") ELSE items
           /\ bgDownloads' = IF ok THEN Tracked(bgDownloads, id, msg.req) ELSE bgDownloads
           /\ awaits' = [awaits EXCEPT ![i] =
                            IF ok THEN Reply(msg, TRUE, "")
                            ELSE Reply(msg, FALSE, "Download failed")]
           /\ effects' = {Responded(msg, ok)}
           /\ UNCHANGED <<timers, contentVars, uiVars, bgSettings, sanVars, extraVars>>

\* the platform starts the download the background asked for: the item
\* exists and has its id, the promise of chrome.downloads.download is not
\* resolved yet
PlatformStartsDownload ==
    \E i \in 1..Len(awaits) :
        LET msg == awaits[i]
            id == Cardinality(downloadIds) + 1
        IN /\ msg.op = "download" /\ msg.by = "background"
           /\ Cardinality(downloadIds) < MaxDownloads
           /\ downloadIds' = downloadIds \cup {id}
           /\ items' = WithItem(items, id, "in_progress")
           /\ awaits' = [awaits EXCEPT ![i] =
                            [op |-> "downloading", from |-> msg.from, req |-> msg.req,
                             id |-> id]]
           /\ effects' = {}
           /\ UNCHANGED <<timers, contentVars, uiVars, bgDownloads, bgSettings, sanVars,
                          extraVars>>

\* the promise of a started download resolves with the id and
\* handleDownloadRequest resumes
BgDownloadResolved ==
    \E i \in 1..Len(awaits) :
        LET msg == awaits[i]
        IN /\ msg.op = "downloading"
           /\ bgDownloads' = Tracked(bgDownloads, msg.id, msg.req)
           /\ awaits' = [awaits EXCEPT ![i] = Reply(msg, TRUE, "")]
           /\ effects' = {Responded(msg, TRUE)}
           /\ UNCHANGED <<timers, contentVars, uiVars, bgSettings, downloadIds, items,
                          sanVars, extraVars>>

\* handleDownloadComplete and handleDownloadInterrupted
handleDownloadEnd(id, current) ==
    /\ effects' = (IF bgSettings.showNotifications
                   THEN {[kind |-> "notification", by |-> "background",
                          title |-> IF current = "complete" THEN "Download Complete"
                                    ELSE "Download Failed"]}
                   ELSE {})
                  \cup (IF current = "interrupted"
                        THEN {[kind |-> "console", level |-> "error",
                               text |-> "Download interrupted"]}
                        ELSE {})
    /\ timers' = WithTimer(timers, "cleanup", id,
                           IF current = "complete" THEN CompleteCleanupDelay
                           ELSE InterruptedCleanupDelay)

\* chrome.downloads.onChanged: the item reaches a final state and
\* handleDownloadChanged runs
DownloadChanged ==
    \E id \in DOMAIN items, current \in {"complete", "interrupted"} :
        /\ items[id] = "in_progress"
        /\ items' = [items EXCEPT ![id] = current]
        /\ IF id \in DOMAIN bgDownloads
           THEN /\ bgDownloads' = [bgDownloads EXCEPT ![id].status = current]
                /\ handleDownloadEnd(id, current)
           ELSE /\ effects' = {}
                /\ UNCHANGED <<timers, bgDownloads>>
        /\ UNCHANGED <<awaits, contentVars, uiVars, bgSettings, downloadIds, sanVars,
                       extraVars>>

\* chrome.storage.sync.set settles and handleSettingsUpdate resumes
BgSettingsStored ==
    \E i \in 1..Len(awaits), ok \in BOOLEAN :
        /\ awaits[i].op = "storageSet"
        /\ awaits' = [awaits EXCEPT ![i] =
                         Reply(awaits[i], ok, IF ok THEN "" ELSE "storage")]
        /\ stored' = IF ok THEN awaits[i].req.settings.autoInject ELSE stored
        /\ effects' = {Responded(awaits[i], ok)}
        /\ UNCHANGED <<timers, location, doc, readyState, containers, scriptVars, histVars,
                       uiVars, bgVars, sanVars, extraVars>>

(***************************************************************************)
(* Other senders of runtime messages, and the responses they get           *)
(***************************************************************************)
UrlSamples ==
    {Str(<<"https", ":", "/", "/", "evil", ".", "com", "/", "x">>),
     Str(<<"http", ":", "/", "/">> \o MarketplaceHost \o <<"/", "x">>),
     Str(<<"https", ":", "/", "/">> \o MarketplaceHost \o <<"/", "x">>),
     Str(<<"https", ":", "/", "/">> \o GalleryHost \o <<".", "evil", ".", "com", "/">>),
     Str(<<"https", ":", "/", "/", "evilgallery", ".", "vsassets", ".", "io", "/">>),
     Str(<<"https", ":", "/", "/", "p", ".">> \o GalleryHost \o <<"/", "x">>),
     Str(<<"not a url">>),
     Undefined}

FilenameSample == Str(<<"a", " ", ".", ".", "/", "b">>)

RequestSamples ==
    {[action |-> Str("download"), url |-> u, filename |-> FilenameSample] : u \in UrlSamples}
    \cup {[action |-> Str("download"), filename |-> Undefined,
           url |-> Str(<<"https", ":", "/", "/">> \o MarketplaceHost \o <<"/", "x">>)],
          [action |-> Str("getSettings")], [action |-> Undefined], [action |-> Str("bogus")],
          [action |-> Str("updateSettings"), settings |-> NullData],
          [action |-> Str("updateSettings"), settings |-> [autoInject |-> FALSE]]}

OtherSendsMessage ==
    /\ Len(awaits) < MaxAwaits
    /\ \E req \in RequestSamples :
          awaits' = Append(awaits, [op |-> "message", from |-> "other", req |-> req])
    /\ effects' = {}
    /\ UNCHANGED <<timers, contentVars, uiVars, bgVars, sanVars, extraVars>>

OtherGetsResponse ==
    \E i \in 1..Len(awaits) :
        /\ awaits[i].op = "response" /\ awaits[i].to = "other"
        /\ awaits' = RemoveAt(awaits, i)
        /\ effects' = {}
        /\ UNCHANGED <<timers, contentVars, uiVars, bgVars, sanVars, extraVars>>

(***************************************************************************)
(* Initial conditions shared by the specifications                         *)
(***************************************************************************)
NoCalls == awaits = <<>> /\ effects = {}

UiIdle ==
    /\ popupData = NullData
    /\ disabled = [b \in Buttons |-> FALSE]
    /\ sinceClick = [b \in Buttons |-> -1]
    /\ sinceSettled = [b \in Buttons |-> -1]

BgIdle ==
    /\ bgDownloads = <<>>
    /\ bgSettings = [autoInject |-> TRUE, showNotifications |-> TRUE]
    /\ downloadIds = {}
    /\ items = <<>>

SanIdle == sanIn = Undefined /\ sanOut = <<>>

BridgeIdle == [state |-> "idle", attempt |-> 0, sends |-> 0, failures |-> 0,
               waited |-> <<>>, error |-> ""]
NoProbe == [fn |-> "none"]

\* no console script ran, the popup sent nothing, no resolver was called
OthersIdle ==
    /\ tableData = NoTable /\ legacyButton = NoButton /\ enhancedPanel = FALSE
    /\ bridge = BridgeIdle
    /\ probe = NoProbe

\* the content script on a page that is no listing page: init returns at once
NoListingPage ==
    /\ Constructed(NonListing, "complete")
    /\ doc = DocBare
    /\ stored = TRUE

(***************************************************************************)
(* The life of one listing page whose address does not change: from the    *)
(* construction of the content script to completion or exhaustion          *)
(***************************************************************************)
PageLocations == {Listing(<<"p", ".", "e">>), Listing(<<"p", ".">>)}

Init ==
    /\ \E loc \in PageLocations, rs \in {"interactive", "complete"} : Constructed(loc, rs)
    /\ doc \in {DocBare, DocVersioned}
    /\ stored \in BOOLEAN
    /\ NoCalls /\ UiIdle /\ BgIdle /\ SanIdle /\ OthersIdle

Next ==
    \/ WindowLoad
    \/ PageRenders
    \/ StorageGetSettles
    \/ FireTimer
    \/ Tick

Spec == Init /\ [][Next]_vars

(***************************************************************************)
(* The change watcher: a listing page long after its first cycle, the      *)
(* host page changing under it                                             *)
(***************************************************************************)
WatcherInit ==
    /\ stored \in BOOLEAN
    /\ \E d \in {DocVersioned, DocNoTarget}, failed \in BOOLEAN :
          Settled(Listing(<<"p", ".", "e">>), d, failed)
    /\ NoCalls /\ UiIdle /\ BgIdle /\ SanIdle /\ OthersIdle

WatcherNext ==
    \/ MutationEvent
    \/ HostRemovesContainer
    \/ HostRenders
    \/ StorageGetSettles
    \/ FireTimer
    \/ Tick

SpecWatcher == WatcherInit /\ [][WatcherNext]_vars

(***************************************************************************)
(* Navigation: pages whose version is rendered from the start, the user    *)
(* and the page changing the address                                       *)
(***************************************************************************)
NavigationInit ==
    /\ Constructed(Listing(<<"p", ".", "e">>), "complete")
    /\ doc = DocVersioned
    /\ stored = TRUE
    /\ NoCalls /\ UiIdle /\ BgIdle /\ SanIdle /\ OthersIdle

NavigationNext ==
    \/ PopState
    \/ PopStateDispatched
    \/ PushState
    \/ StorageGetSettles
    \/ FireTimer
    \/ Tick

SpecNavigation == NavigationInit /\ [][NavigationNext]_vars

(***************************************************************************)
(* The dispatch of clicks: a settled page, the popup, the background       *)
(***************************************************************************)
DispatchLocations ==
    {Listing(<<"p", ".", "e">>), Listing(<<"p", ".", "e", ":", "x">>),
     Listing(<<"p", " ", ".", "e">>), Listing(<<"p", ".">>), NonListing}

DispatchInit ==
    /\ \E loc \in DispatchLocations :
          IF isValidPage(loc)
          THEN stored = TRUE /\ Settled(loc, DocVersioned, FALSE)
          ELSE NoListingPage
    /\ NoCalls /\ UiIdle /\ BgIdle /\ SanIdle /\ OthersIdle

DispatchNext ==
    \/ ContentClick
    \/ ContentMessageError
    \/ ContentResponse
    \/ ContentClipboardSettled
    \/ PopupFetchExtensionData
    \/ PopupClickDownload
    \/ PopupDownloadSettled
    \/ PopupClickCopy
    \/ PopupClipboardSettled
    \/ BgHandleMessage
    \/ BgDownloadSettled
    \/ FireTimer
    \/ Tick

SpecDispatch == DispatchInit /\ [][DispatchNext]_vars

(***************************************************************************)
(* The background on its own, with arbitrary senders                       *)
(***************************************************************************)
BackgroundInit == NoListingPage /\ NoCalls /\ UiIdle /\ BgIdle /\ SanIdle /\ OthersIdle

BackgroundNext ==
    \/ OtherSendsMessage
    \/ BgHandleMessage
    \/ BgDownloadSettled
    \/ BgSettingsStored
    \/ OtherGetsResponse

SpecBackground == BackgroundInit /\ [][BackgroundNext]_vars

(***************************************************************************)
(* The background's record of its downloads: requests, the platform's      *)
(* items, the onChanged events, and the clean-up timers.                   *)
(***************************************************************************)
DownloadRequest ==
    [action |-> Str("download"), filename |-> FilenameSample,
     url |-> Str(<<"https", ":", "/", "/">> \o MarketplaceHost \o <<"/", "x">>)]

\* a sender whose request passes validateDownloadRequest
OtherRequestsDownload ==
    /\ Len(awaits) < MaxAwaits
    /\ awaits' = Append(awaits, [op |-> "message", from |-> "other", req |-> DownloadRequest])
    /\ effects' = {}
    /\ UNCHANGED <<timers, contentVars, uiVars, bgVars, sanVars, extraVars>>

TrackingNext ==
    \/ OtherRequestsDownload
    \/ BgHandleMessage
    \/ PlatformStartsDownload
    \/ BgDownloadResolved
    \/ BgDownloadSettled
    \/ DownloadChanged
    \/ OtherGetsResponse
    \/ FireTimer
    \/ Tick

SpecTracking == BackgroundInit /\ [][TrackingNext]_vars

(***************************************************************************)
(* sanitizeFilename on its own: every short string over a small alphabet,  *)
(* alone, with either extension appended, and behind a padding that takes  *)
(* it across the length limit.                                             *)
(***************************************************************************)
FilenameChars == {"a", ".", ":", " ", "/"}

RECURSIVE StringsUpTo(_, _)
StringsUpTo(chars, n) ==
    IF n = 0 THEN {<<>>}
    ELSE LET shorter == StringsUpTo(chars, n - 1)
         IN shorter \cup {<<c>> \o s : c \in chars, s \in {t \in shorter : Len(t) = n - 1}}

Stems == StringsUpTo(FilenameChars, MaxLen)

Padding(n) == [i \in 1..n |-> "a"]

PadLengths == {MaxFilenameLength - 6, MaxFilenameLength - 1}

\* the filename of the specification's example: ../../evil:name?.vsix
TraversalExample ==
    <<".", ".", "/", ".", ".", "/", "e", "v", "i", "l", ":", "n", "a", "m", "e", "?">>
    \o DotVsix

FilenameInputs ==
    LET tails == Stems \cup {s \o DotVsix : s \in Stems}
                       \cup {s \o DotVsixPackage : s \in Stems}
    IN tails \cup {Padding(n) \o s : n \in PadLengths, s \in tails} \cup {TraversalExample}

SanInit == NoListingPage /\ NoCalls /\ UiIdle /\ BgIdle /\ SanIdle /\ OthersIdle

\* one call of sanitizeFilename
SanitizeCall ==
    /\ UNCHANGED <<timers, awaits, effects, contentVars, uiVars, bgVars,
                   extraVars>>
    /\ sanOut = <<>>
    /\ \E f \in {Str(s) : s \in FilenameInputs} \cup {Undefined} :
        /\ sanIn' = f
        /\ sanOut' = sanitizeFilename(f)

\* the result is consumed; the next call may follow
SanitizeReturn ==
    /\ UNCHANGED <<timers, awaits, effects, contentVars, uiVars, bgVars,
                   extraVars>>
    /\ sanOut # <<>>
    /\ sanIn' = Undefined
    /\ sanOut' = <<>>

SanNext == SanitizeCall \/ SanitizeReturn

SpecSanitize == SanInit /\ [][SanNext]_vars

(***************************************************************************)
(* The resolvers on their own: extractFromURL on short itemName values,    *)
(* and the URL and the filename each variant makes of a publisher, an      *)
(* extension name and a version                                            *)
(***************************************************************************)
ItemNameChars == {"p", "e", ".", " ", "<"}
ItemNames ==
    StringsUpTo(ItemNameChars, MaxLen)
    \cup {<<"p", ".", "e", ".", "x">>, <<"p", ".", ".", "e">>, <<"p", ".", "e", " ", ".", "x">>,
          <<" ", "p", ".", "e">>, <<"p", "&", ".", "e">>, <<"p", " ", ".", "e">>}

MsPython == <<"m", "s", "-", "p", "y", "t", "h", "o", "n">>
Python == <<"p", "y", "t", "h", "o", "n">>
ResolvePublishers == {<<"p">>, <<"p", " ">>, <<"p", "/", "x">>, <<"%", "2", "F">>, MsPython}
ResolveExtensions == {<<"e">>, <<"e", ".", "x">>, <<"e", "/", "x">>, <<"e", "%">>, Python}
ResolveVersions == {<<"1", ".", "0", ".", "0">>, <<"2", "0", "2", "4", ".", "0", ".", "0">>,
                    <<"1", ".", "0", ".", "0", "/", "x">>, <<"v", "1">>}

ResolveInit ==
    /\ NoListingPage /\ NoCalls /\ UiIdle /\ BgIdle /\ SanIdle /\ OthersIdle

\* extractFromURL on a fresh descriptor
ExtractFromUrlCall ==
    /\ \E itemName \in ItemNames :
          probe' = [fn |-> "extractFromURL", itemName |-> itemName,
                    data |-> extractFromURL(EmptyData, Listing(itemName))]
    /\ UNCHANGED <<timers, awaits, effects, contentVars, uiVars, bgVars, sanVars,
                   consoleVars, bridge>>

\* the descriptor the popup receives for a publisher and an extension name
PopupDescriptor(publisher, extension, version) ==
    [identifier |-> publisher \o <<".">> \o extension, publisher |-> publisher,
     name |-> extension, version |-> version]

\* downloadFile of the content script, handleDownload of the popup and
\* createDownloadButton of the legacy script on the same three values
ResolveCall ==
    /\ \E publisher \in ResolvePublishers, extension \in ResolveExtensions,
          version \in ResolveVersions, type \in {"vsix", "vsixpackage"} :
          probe' = [fn |-> "resolve", publisher |-> publisher, extension |-> extension,
                    version |-> version, type |-> type,
                    content |-> DownloadMessage(publisher, extension, version, type),
                    popup |-> [url |-> PopupUrl(PopupDescriptor(publisher, extension,
                                                                version), type),
                               filename |-> PopupFilename(PopupDescriptor(publisher,
                                                              extension, version), type)],
                    legacy |-> createDownloadButton(PopupDescriptor(publisher, extension,
                                                                    version))]
    /\ UNCHANGED <<timers, awaits, effects, contentVars, uiVars, bgVars, sanVars,
                   consoleVars, bridge>>

ResolveNext == ExtractFromUrlCall \/ ResolveCall

SpecResolve == ResolveInit /\ [][ResolveNext]_vars

(***************************************************************************)
(* The console scripts on a listing page without the browser extension     *)
(***************************************************************************)
TableVersions == {<<>>, <<"1", ".", "0", ".", "0">>, <<"2", ".", "0", ".", "0">>}
TableIdentifiers == {<<>>, <<"p", ".", "e">>, <<"x", ".", "e">>, <<"p", ".", "e", ".", "x">>,
                     <<"p">>}
TablePublishers == {<<>>, <<"p">>}

ConsoleInit ==
    /\ NoListingPage /\ NoCalls /\ UiIdle /\ BgIdle /\ SanIdle
    /\ tableData \in [version : TableVersions, publisher : TablePublishers,
                      identifier : TableIdentifiers, container : BOOLEAN]
    /\ legacyButton = NoButton
    /\ enhancedPanel = FALSE
    /\ bridge = BridgeIdle
    /\ probe = NoProbe

ConsoleNext ==
    \/ LegacyScriptRuns
    \/ LegacyClick
    \/ XhrProgress
    \/ XhrSettles
    \/ EnhancedScriptRuns
    \/ EnhancedClickCopy
    \/ EnhancedClipboardSettled
    \/ FireTimer
    \/ Tick

SpecConsole == ConsoleInit /\ [][ConsoleNext]_vars

(***************************************************************************)
(* The extractors on their own: the content script's extractMetadata over   *)
(* page addresses and documents, run once and then once more on the result, *)
(* and the enhanced script's extractMetadata over metadata tables           *)
(***************************************************************************)
\* a JSON-LD block that parses and carries softwareVersion
Block(version) == [ok |-> TRUE, softwareVersion |-> version, version |-> Undefined,
                   Version |-> Undefined, offersVersion |-> Undefined]
\* a block JSON.parse rejects
BadBlock == [ok |-> FALSE, softwareVersion |-> Undefined, version |-> Undefined,
             Version |-> Undefined, offersVersion |-> Undefined]

TaggedVersion == <<"1", ".", "2", ".", "3", "<">>
QuotedVersion == <<"1", ".", "2", ".", "3", "&">>

DocTagged == [DocBare EXCEPT !.scripts = <<BadBlock, Block(Str(TaggedVersion))>>]
DocBadJson == [DocBare EXCEPT !.scripts = <<BadBlock>>]
DocState == [DocBare EXCEPT !.state = [present |-> TRUE, extension |-> Undefined,
                                       item |-> Str(QuotedVersion), data |-> Undefined]]
\* all three strategies find a version, each another one
DocAll == [DocState EXCEPT !.scripts = <<Block(Str(<<"3", ".", "0", ".", "0">>))>>,
                           !.selected = << <<"1", ".", "2", ".", "3">> >>]
\* the DOM and the page state hold a version, the blocks none
DocDomState == [DocState EXCEPT !.scripts = <<BadBlock, Block(Str(<<"1", ".", "2">>))>>,
                                !.selected = << <<"1", ".", "2", ".", "3">> >>]
\* a block whose softwareVersion is no version and whose version is one
DocShadowed ==
    [DocBare EXCEPT !.scripts = <<[Block(Str(<<"x">>)) EXCEPT
                                      !.version = Str(<<"1", ".", "2", ".", "3">>)]>>]
ExtractDocs == {DocBare, DocVersioned, DocTagged, DocBadJson, DocState, DocAll,
                DocDomState, DocShadowed}
ExtractLocations == {Listing(n) : n \in ItemNames} \cup {NonListing}

ExtractInit ==
    /\ NoListingPage /\ NoCalls /\ UiIdle /\ BgIdle /\ SanIdle /\ OthersIdle

\* extractMetadata() on a fresh descriptor
ExtractMetadataCall ==
    /\ probe = NoProbe
    /\ \E loc \in ExtractLocations, d \in ExtractDocs :
          probe' = [fn |-> "extractMetadata", loc |-> loc, doc |-> d, runs |-> 1,
                    previous |-> EmptyData, data |-> extractMetadata(EmptyData, loc, d)]
    /\ UNCHANGED <<timers, awaits, effects, contentVars, uiVars, bgVars, sanVars,
                   consoleVars, bridge>>

\* extractMetadata() once more, the document and the address as they were
ExtractAgainCall ==
    /\ probe.fn = "extractMetadata" /\ probe.runs = 1
    /\ probe' = [probe EXCEPT !.runs = 2, !.previous = probe.data,
                              !.data = extractMetadata(probe.data, probe.loc, probe.doc)]
    /\ UNCHANGED <<timers, awaits, effects, contentVars, uiVars, bgVars, sanVars,
                   consoleVars, bridge>>

\* ExtensionManager.extractMetadata() of the enhanced script on a page's table
EnhancedExtractCall ==
    /\ probe = NoProbe
    /\ \E table \in [version : TableVersions, publisher : TablePublishers,
                     identifier : TableIdentifiers, container : BOOLEAN] :
          probe' = [fn |-> "enhancedExtract", table |-> table,
                    result |-> enhancedExtractMetadata(table)]
    /\ UNCHANGED <<timers, awaits, effects, contentVars, uiVars, bgVars, sanVars,
                   consoleVars, bridge>>

ExtractNext ==
    \/ ExtractMetadataCall
    \/ ExtractAgainCall
    \/ EnhancedExtractCall

SpecExtract == ExtractInit /\ [][ExtractNext]_vars

(***************************************************************************)
(* The container: a rendered listing page from the construction of the     *)
(* content script on, the page changing its elements, the enhanced script  *)
(* pasted in the console any number of times                               *)
(***************************************************************************)
ContainerInit ==
    /\ Constructed(Listing(<<"p", ".", "e">>), "interactive")
    /\ doc = DocVersioned
    /\ stored \in BOOLEAN
    /\ NoCalls /\ UiIdle /\ BgIdle /\ SanIdle
    /\ tableData = [version |-> <<"1", ".", "0", ".", "0">>, publisher |-> <<"p">>,
                    identifier |-> <<"p", ".", "e">>, container |-> TRUE]
    /\ legacyButton = NoButton
    /\ enhancedPanel = FALSE
    /\ bridge = BridgeIdle
    /\ probe = NoProbe

ContainerNext ==
    \/ WindowLoad
    \/ MutationEvent
    \/ HostRemovesContainer
    \/ EnhancedScriptRuns
    \/ StorageGetSettles
    \/ FireTimer
    \/ Tick

SpecContainer == ContainerInit /\ [][ContainerNext]_vars

(***************************************************************************)
(* The autoInject gate: a listing page long after it opened, the setting   *)
(* stored either way; the user goes back in the history to a listing that  *)
(* renders late, the page changes its elements, the settings read fails or *)
(* not                                                                     *)
(***************************************************************************)
GateInit ==
    /\ stored \in BOOLEAN
    /\ \E failed \in BOOLEAN : Settled(Listing(<<"p", ".", "e">>), DocVersioned, failed)
    /\ NoCalls /\ UiIdle /\ BgIdle /\ SanIdle /\ OthersIdle

\* back in the history, once: the address changes, a popstate event is
\* queued, and the listing shown is not rendered yet
HistoryNavigation ==
    /\ location = Listing(<<"p", ".", "e">>)
    /\ Len(awaits) < MaxAwaits
    /\ location' = Listing(<<"x", ".", "e">>)
    /\ doc' = DocBare
    /\ awaits' = Append(awaits, [op |-> "popstate"])
    /\ effects' = {}
    /\ UNCHANGED <<timers, readyState, stored, containers, scriptVars, histVars,
                   uiVars, bgVars, sanVars, extraVars>>

GateNext ==
    \/ HistoryNavigation
    \/ PopStateDispatched
    \/ PageRenders
    \/ MutationEvent
    \/ HostRemovesContainer
    \/ StorageGetSettles
    \/ FireTimer
    \/ Tick

SpecGate == GateInit /\ [][GateNext]_vars

(***************************************************************************)
(* The popup opens on the tab of a listing page whose content script has   *)
(* settled; any message to the tab may fail                                *)
(***************************************************************************)
BridgeInit ==
    /\ stored \in BOOLEAN
    /\ \E loc \in {l \in DispatchLocations : isValidPage(l)},
          d \in {DocVersioned, DocNoTarget}, failed \in BOOLEAN :
          Settled(loc, d, failed)
    /\ NoCalls /\ UiIdle /\ BgIdle /\ SanIdle /\ OthersIdle

BridgeNext ==
    \/ PopupSendMessage
    \/ TabMessageAnswered
    \/ FireTimer
    \/ Tick

SpecBridge == BridgeInit /\ [][BridgeNext]_vars

(***************************************************************************)
(* A second pass in the same page view: the page is still loading when the *)
(* script is constructed, and it replaces the version it shows             *)
(***************************************************************************)
RepassInit ==
    /\ Constructed(Listing(<<"p", ".", "e">>), "interactive")
    /\ doc = DocVersioned
    /\ stored \in BOOLEAN
    /\ NoCalls /\ UiIdle /\ BgIdle /\ SanIdle /\ OthersIdle

RepassNext ==
    \/ WindowLoad
    \/ HostUpdatesVersion
    \/ StorageGetSettles
    \/ FireTimer
    \/ Tick

SpecRepass == RepassInit /\ [][RepassNext]_vars

(***************************************************************************)
(* The fallback of the content script: settled listing pages, one of them  *)
(* of a publisher whose name has a blank in it, the injected buttons, the  *)
(* background                                                              *)
(***************************************************************************)
FallbackLocations == {Listing(<<"p", ".", "e">>), Listing(<<"p", " ", "x", ".", "e">>)}

FallbackInit ==
    /\ stored = TRUE
    /\ \E loc \in FallbackLocations : Settled(loc, DocVersioned, FALSE)
    /\ NoCalls /\ UiIdle /\ BgIdle /\ SanIdle /\ OthersIdle

FallbackNext ==
    \/ ContentClick
    \/ ContentMessageError
    \/ ContentResponse
    \/ ContentClipboardSettled
    \/ BgHandleMessage
    \/ BgDownloadSettled
    \/ FireTimer
    \/ Tick

SpecFallback == FallbackInit /\ [][FallbackNext]_vars

(***************************************************************************)
(* Timers across a navigation: a listing page that renders late, so that   *)
(* the first cycle is retrying when the user goes back in the history      *)
(***************************************************************************)
ResetInit ==
    /\ Constructed(Listing(<<"p", ".", "e">>), "complete")
    /\ doc = DocBare
    /\ stored = TRUE
    /\ NoCalls /\ UiIdle /\ BgIdle /\ SanIdle /\ OthersIdle

ResetNext ==
    \/ HistoryNavigation
    \/ PopStateDispatched
    \/ PageRenders
    \/ StorageGetSettles
    \/ FireTimer
    \/ Tick

SpecReset == ResetInit /\ [][ResetNext]_vars

(***************************************************************************)
(* Properties                                                              *)
(***************************************************************************)
HasChar(s, set) == \E i \in 1..Len(s) : s[i] \in set

CyclesInFlight ==
    {i \in 1..Len(awaits) : awaits[i].op = "storageGet" /\ awaits[i].by = "startProcessing"}

ReadsInFlight == {i \in 1..Len(awaits) : awaits[i].op = "storageGet"}

\* C1 (Spec): on a listing page whose metadata never becomes complete and
\* whose address never changes, extraction runs at most 1 + maxRetries = 6
\* times, whenever the DOM-ready and the window-load triggers come.
C1_RetryBound == doc = DocBare => extractions <= 1 + maxRetries

\* C2 (Spec): at no time are two startProcessing cycles in flight; a cycle
\* suspended on the settings read excludes the start of any other.
C2_NoReentrancy == Cardinality(CyclesInFlight) <= 1

\* C3 (SpecWatcher): once the buttons have been injected (autoInject true,
\* an injection target present), whenever the mutations have quiesced and
\* the debounced check and its settings read have run, the container is in
\* the page: a container the host removed has been put back.
C3_Reassertion ==
    ( /\ isInjected /\ stored /\ findInjectionTarget(doc)
      /\ burst.events = 0
      /\ Pending("debounce", "mutation") = {}
      /\ ReadsInFlight = {} )
    => containers > 0

\* C4 (SpecNavigation): every change of the page address, however long
\* the page has been open, is detected: while the address differs from the
\* one the script last reset for, a popstate event is on its way or the
\* URL check is still running.
C4_NavigationDetected ==
    ("popstate" \in listeners /\ location # seenUrl)
    => \/ \E i \in 1..Len(awaits) : awaits[i].op = "popstate"
       \/ Pending("interval", "urlCheck") # {}

\* C5 (Spec): an extraction is treated as complete (no retry, injection
\* and watcher armed) if and only if publisher, name and version are all
\* non-empty and the version matches the version pattern.
C5_CompletionCriterion ==
    \A e \in effects :
        e.kind = "extraction" =>
            (e.complete <=> /\ extensionData.publisher # <<>>
                            /\ extensionData.name # <<>>
                            /\ extensionData.version # <<>>
                            /\ isValidVersion(Str(extensionData.version)))

\* C6 (SpecWatcher): a burst of mutation events, each less than the
\* debounce window after the one before, has exactly one check pending,
\* due MutationDelay after the last event of the burst; the check runs
\* exactly then, and no check is pending without a burst.
C6_Debounce ==
    /\ burst.events = 0 => Pending("debounce", "mutation") = {}
    /\ burst.events > 0 =>
          /\ Cardinality(Pending("debounce", "mutation")) = 1
          /\ \A i \in Pending("debounce", "mutation") :
                timers[i].left = MutationDelay - burst.since
    /\ \A e \in effects :
          e.kind = "check" => e.events >= 1 /\ e.after = MutationDelay

\* a burst of several events has just had its one check
C6_BurstChecked ==
    \E e \in effects : e.kind = "check" /\ e.events >= 2 /\ e.after = MutationDelay

\* the allow-list in the words of the specification: the URL parses, its
\* scheme is https, its host is one of the two domains or a subdomain
AllowedUrl(u) ==
    /\ u.t = "string"
    /\ ParseUrl(u.v).ok
    /\ ParseUrl(u.v).protocol = <<"https", ":">>
    /\ \E d \in {MarketplaceHost, GalleryHost} :
          \/ ParseUrl(u.v).hostname = d
          \/ /\ Len(ParseUrl(u.v).hostname) > Len(d) + 1
             /\ EndsWith(ParseUrl(u.v).hostname, <<".">> \o d)

IsDownloadRequest(req) == req.action = Str("download")

\* C7 (SpecBackground): the background calls the download API only for
\* URLs on the allow-list; every other download request is answered
\* success = false, is never handed to the API and never tracked.
C7_AllowListBeforeCapability ==
    /\ \A e \in effects :
          /\ (e.kind = "download" /\ e.by = "background") => AllowedUrl(e.url)
          /\ (e.kind = "response" /\ IsDownloadRequest(e.req) /\ ~AllowedUrl(e.req.url))
                => ~e.success
    /\ \A i \in 1..Len(awaits) :
          (awaits[i].op = "download" /\ awaits[i].by = "background")
             => AllowedUrl(awaits[i].req.url)
    /\ \A k \in DOMAIN bgDownloads : AllowedUrl(bgDownloads[k].url)

\* a request for an http URL on an allowed host has just been refused
C7_HttpRefused ==
    \E e \in effects :
        /\ e.kind = "response" /\ IsDownloadRequest(e.req) /\ ~e.success
        /\ e.req.url.t = "string"
        /\ ParseUrl(e.req.url.v).ok
        /\ ParseUrl(e.req.url.v).protocol = <<"http", ":">>
        /\ ParseUrl(e.req.url.v).hostname = MarketplaceHost

\* C8 (SpecDispatch): every call of the download API, by the background
\* or by the popup, passes a URL on the https allow-list and a filename
\* that is the sanitized form of the one asked for.
C8_EveryPathValidated ==
    \A e \in effects :
        e.kind = "download" =>
            /\ AllowedUrl(e.url)
            /\ e.filename = sanitizeFilename(e.requested)

\* C9 (SpecSanitize): for every input, what sanitizeFilename returns holds
\* none of < > : " | ? *, no '..', no whitespace, does not start with '.',
\* and ends in .vsix or .vsixpackage.
C9_SanitizedFilename ==
    sanOut # <<>> =>
        /\ ~HasChar(sanOut, WindowsForbidden)
        /\ ~HasDotDot(sanOut)
        /\ sanOut[1] # "."
        /\ ~HasChar(sanOut, Whitespace)
        /\ EndsWith(sanOut, DotVsix) \/ EndsWith(sanOut, DotVsixPackage)

\* the action of the click on the popup button b has not ended yet
ActionPending(b) ==
    \E i \in 1..Len(awaits) :
        \/ awaits[i].op = "download" /\ awaits[i].by = "popup" /\ awaits[i].button = b
        \/ awaits[i].op = "clipboard" /\ awaits[i].by = "popup" /\ b = "copyUrl"

\* C10 as stated (SpecDispatch): a button disabled by a click is enabled
\* again one settling delay after that click.
C10_ReenabledAfterClick ==
    \A b \in Buttons : disabled[b] => sinceClick[b] <= ReenableDelay

\* C10 (SpecDispatch): a disabled button is enabled again one settling
\* delay after the action of its click has ended, whatever the outcome: for
\* an injected button that is the click itself; for a popup button, the
\* moment the download or clipboard call settles.  Until then exactly one
\* re-enable timer is running for it.
C10_ReenabledAfterSettling ==
    \A b \in Buttons :
        disabled[b] =>
            /\ b \in InjectedButtons => sinceSettled[b] = sinceClick[b]
            /\ IF sinceSettled[b] < 0
               THEN b \in PopupButtons /\ ActionPending(b)
               ELSE /\ Cardinality(Pending("enable", b)) = 1
                    /\ \A i \in Pending("enable", b) :
                          timers[i].left = ReenableDelay - sinceSettled[b]

\* a popup button is about to be enabled, a settling delay after its
\* download settled and longer than that after the click
C10_PopupReenableDue ==
    \E b \in PopupButtons :
        /\ disabled[b]
        /\ sinceSettled[b] = ReenableDelay
        /\ sinceClick[b] > ReenableDelay

\* C11: in the legacy script a button without a click handler has a request
\* in flight or a timer, due within 3 seconds, whose callback restores the
\* handler: the button is never left without a handler for good
C11_HandlerRestored ==
    (legacyButton.present /\ legacyButton.onclick = "null")
        => \/ \E i \in 1..Len(awaits) : awaits[i].op = "xhr"
           \/ \E i \in 1..Len(timers) :
                 timers[i].kind = "restore" /\ timers[i].left <= LegacyErrorDelay

\* C12: a click on an injected button while publisher, extension name or
\* version of the descriptor is empty starts no download message and no
\* clipboard write and opens no tab; it shows one error notification and
\* nothing else
C12_MissingDataFailsFast ==
    [][(ContentClick /\ (extensionData.publisher = <<>> \/ extensionData.name = <<>>
                         \/ extensionData.version = <<>>))
         => /\ awaits' = awaits
            /\ \E text \in {"Invalid extension data",
                             "Extension data not available. Please refresh the page."} :
                  effects' = {Note("error", text)}]_vars

\* a click on a page whose descriptor has no extension name was refused
C12_RefusedClick ==
    /\ extensionData.name = <<>> /\ extensionData.publisher # <<>>
    /\ effects = {Note("error", "Invalid extension data")}
    /\ \E b \in InjectedButtons : disabled[b]

\* C13: when the callback of a download message runs with a messaging
\* error, the tab is opened and the error notification carries the cause
\* the platform reported; a success notification never comes with a tab
C13_DispatchOutcomes ==
    /\ \A e \in effects :
          e.kind = "lastError"
             => /\ Note("error", e.message) \in effects
                /\ \E o \in effects : o.kind = "open"
    /\ Note("success", "Download started successfully") \in effects
          => ~\E o \in effects : o.kind = "open"

\* C14: every text on its way to the clipboard holds the vsix URL and the
\* vsixpackage URL, and a clipboard write that failed is reported with an
\* error notification
C14_CopyDispatch ==
    /\ \A i \in 1..Len(awaits) :
          awaits[i].op = "clipboard"
             => {"vsixUrl", "packageUrl"} \subseteq DOMAIN awaits[i].text
    /\ (\E e \in effects : e.kind = "console" /\ e.text = "Failed to copy")
          => \E n \in effects : n.kind = "notification" /\ n.type = "error"

\* C15: the step that injects the container is the end of a settings read
\* that gave autoInject = true or that failed; while the stored setting is
\* false and no read fails, nothing injects
C15_AutoInjectGate ==
    (\E e \in effects : e.kind = "inject")
        => \/ stored
           \/ \E e \in effects : e.kind = "console" /\ e.text = "Settings check error"

\* the setting is stored as false, extraction has completed after retries,
\* a read of the setting has ended, and the page holds no container
C15_GateClosed ==
    /\ ~stored /\ hasValidData(extensionData) /\ extractions > 1
    /\ awaits = <<>> /\ ~isProcessing
    /\ containers = 0 /\ ~isInjected

\* C16: one call of sendMessageWithRetry sends at most three times; every
\* send but the first follows a failure and a backoff of 300, then 600; the
\* call resolves with the first answer that came without messaging error
\* and rejects with 'Content script not responding' after three failures
C16_BridgeRetry ==
    /\ bridge.sends <= 3
    /\ bridge.waited \in {<<>>, <<300>>, <<300, 600>>}
    /\ \A i \in 1..Len(timers) :
          timers[i].kind = "resend"
             => /\ bridge.state = "pending"
                /\ bridge.failures = bridge.sends /\ Len(bridge.waited) = bridge.sends
                /\ timers[i].left <= 300 * Pow2(bridge.sends - 1)
                /\ \A j \in 1..Len(awaits) : awaits[j].op # "tabMessage"
    /\ \A i \in 1..Len(awaits) :
          awaits[i].op = "tabMessage"
             => /\ bridge.state = "pending" /\ awaits[i].attempt = bridge.sends
                /\ bridge.failures = bridge.sends - 1
                /\ Len(bridge.waited) = bridge.sends - 1
    /\ bridge.state = "resolved" => bridge.failures = bridge.sends - 1
    /\ bridge.state = "rejected"
          => /\ bridge.sends = 3 /\ bridge.failures = 3
             /\ bridge.error = "Content script not responding"
             /\ \A i \in 1..Len(awaits) : awaits[i].op # "tabMessage"
             /\ \A i \in 1..Len(timers) : timers[i].kind # "resend"

\* the third attempt failed too: the call is rejected
C16_ThirdFailure ==
    /\ bridge.state = "rejected"
    /\ bridge.waited = <<300, 600>>
    /\ Status("error", "Content Script Error") \in effects

\* the first position of c in s (0 when there is none)
IndexOf(s, c) == FirstIndexIn(s, {c})

\* C17: for an itemName of the form P.E, P and E non-empty, holding none of
\* < > " ' & and neither P nor E with whitespace around it, extractFromURL
\* gives publisher P (the text before the first dot), name E (all the text
\* after the first dot) and the itemName itself as identifier
C17_UrlParameterStrategy ==
    probe.fn = "extractFromURL"
        => LET s == probe.itemName
               i == IndexOf(s, ".")
               P == SubSeq(s, 1, i - 1)
               E == SubSeq(s, i + 1, Len(s))
           IN (/\ i > 1 /\ i < Len(s)
               /\ \A k \in 1..Len(s) : s[k] \notin {"<", ">", "\"", "'", "&"}
               /\ P[1] \notin Whitespace /\ P[Len(P)] \notin Whitespace
               /\ E[1] \notin Whitespace /\ E[Len(E)] \notin Whitespace)
                  => /\ probe.data.publisher = P
                     /\ probe.data.name = E
                     /\ probe.data.identifier = s

\* extractFromURL was applied to an itemName with more than one dot
C17_SeveralDots ==
    /\ probe.fn = "extractFromURL"
    /\ probe.itemName = <<"p", ".", "e", ".", "x">>
    /\ probe.data.name = <<"e", ".", "x">>

\* C18: the content script and the popup resolve kind 'vsix' and kind
\* 'vsixpackage' to the two templates, publisher, extension name and
\* version each percent-encoded on its own before it is put in; for
\* ms-python, python, 2024.0.0 the vsix URL is the one of the scenario
C18_UrlResolution ==
    probe.fn = "resolve"
        => LET P == encodeURIComponent(probe.publisher)
               E == encodeURIComponent(probe.extension)
               V == encodeURIComponent(probe.version)
               expected ==
                   IF probe.type = "vsix"
                   THEN <<"https", ":", "/", "/">> \o P
                        \o <<".", "gallery", ".", "vsassets", ".", "io", "/", "_apis", "/",
                             "public", "/", "gallery", "/", "publisher", "/">>
                        \o P \o <<"/", "extension", "/">> \o E \o <<"/">> \o V
                        \o <<"/", "assetbyname", "/",
                             "Microsoft.VisualStudio.Services.VSIXPackage">>
                   ELSE <<"https", ":", "/", "/", "marketplace", ".", "visualstudio", ".",
                          "com", "/", "_apis", "/", "public", "/", "gallery", "/",
                          "publishers", "/">>
                        \o P \o <<"/", "vsextensions", "/">> \o E \o <<"/">> \o V
                        \o <<"/", "vspackage">>
           IN /\ probe.content.url = Str(expected)
              /\ probe.popup.url = expected
              /\ (/\ probe.publisher = MsPython /\ probe.extension = Python
                  /\ probe.version = <<"2", "0", "2", "4", ".", "0", ".", "0">>
                  /\ probe.type = "vsix")
                    => probe.content.url.v =
                          <<"https", ":", "/", "/", "m", "s", "-", "p", "y", "t", "h", "o",
                            "n", ".", "gallery", ".", "vsassets", ".", "io", "/", "_apis",
                            "/", "public", "/", "gallery", "/", "publisher", "/", "m", "s",
                            "-", "p", "y", "t", "h", "o", "n", "/", "extension", "/", "p",
                            "y", "t", "h", "o", "n", "/", "2", "0", "2", "4", ".", "0", ".",
                            "0", "/", "assetbyname", "/",
                            "Microsoft.VisualStudio.Services.VSIXPackage">>

\* a vsix URL was resolved for a publisher with a character that is encoded
C18_EncodedPublisher ==
    /\ probe.fn = "resolve" /\ probe.type = "vsix"
    /\ probe.publisher = <<"p", " ">>
    /\ SubSeq(probe.popup.url, 5, 8) = <<"p", "%", "2", "0">>

\* String.prototype.split('/')
RECURSIVE SplitSlash(_)
SplitSlash(s) ==
    LET i == FirstIndexIn(s, {"/"})
    IN IF i = 0 THEN <<s>>
       ELSE <<SubSeq(s, 1, i - 1)>> \o SplitSlash(SubSeq(s, i + 1, Len(s)))

\* the character a percent code stands for
CodeChar(h, l) ==
    CASE <<h, l>> = <<"2", "0">> -> " "
      [] <<h, l>> = <<"0", "9">> -> "\t"
      [] <<h, l>> = <<"2", "2">> -> "\""
      [] <<h, l>> = <<"2", "5">> -> "%"
      [] <<h, l>> = <<"2", "6">> -> "&"
      [] <<h, l>> = <<"2", "F">> -> "/"
      [] <<h, l>> = <<"3", "A">> -> ":"
      [] <<h, l>> = <<"3", "C">> -> "<"
      [] <<h, l>> = <<"3", "E">> -> ">"
      [] <<h, l>> = <<"3", "F">> -> "?"
      [] <<h, l>> = <<"7", "C">> -> "|"
      [] OTHER -> "URIError"

\* decodeURIComponent: every '%' takes the two characters after it with it
RECURSIVE decodeURIComponent(_)
decodeURIComponent(s) ==
    IF Len(s) = 0 THEN <<>>
    ELSE IF s[1] # "%" THEN <<s[1]>> \o decodeURIComponent(Tail(s))
    ELSE IF Len(s) < 3 THEN <<"URIError">>
    ELSE <<CodeChar(s[2], s[3])>> \o decodeURIComponent(SubSeq(s, 4, Len(s)))

\* C19: for a version that starts with three dot-separated numbers, the vsix
\* URL of the content script split at '/' has the publisher, the extension
\* name and the version as its 8th, 10th and 11th piece, each recovered
\* whole by percent-decoding
C19_RoundTrip ==
    (/\ probe.fn = "resolve" /\ probe.type = "vsix"
     /\ isValidVersion(Str(probe.version)))
        => LET pieces == SplitSlash(probe.content.url.v)
           IN /\ Len(pieces) = 13
              /\ decodeURIComponent(pieces[8]) = probe.publisher
              /\ decodeURIComponent(pieces[10]) = probe.extension
              /\ decodeURIComponent(pieces[11]) = probe.version

\* a vsix URL was resolved for values that hold '/' and '%'
C19_SlashAndPercent ==
    /\ probe.fn = "resolve" /\ probe.type = "vsix"
    /\ probe.publisher = <<"%", "2", "F">>
    /\ probe.extension = <<"e", "/", "x">>
    /\ probe.version = <<"1", ".", "0", ".", "0", "/", "x">>

\* C20: the filename of the download is identifier_version.vsix for kind
\* vsix and identifier_version.vsixpackage for kind vsixpackage, in the
\* content script, in the popup and in the legacy script
C20_FilenameConvention ==
    probe.fn = "resolve"
        => LET identifier == probe.publisher \o <<".">> \o probe.extension
               expected(ext) == identifier \o <<"_">> \o probe.version \o ext
           IN /\ probe.content.filename
                    = Str(expected(IF probe.type = "vsix" THEN DotVsix ELSE DotVsixPackage))
              /\ probe.popup.filename
                    = expected(IF probe.type = "vsix" THEN DotVsix ELSE DotVsixPackage)
              /\ probe.legacy.filename = expected(DotVsix)

\* C21: whatever the page address and the document, and whichever strategy
\* supplied the value, no field of the extracted descriptor (publisher,
\* name, identifier, version) holds one of the characters < > " ' &
C21_NoHtmlCharacters ==
    probe.fn = "extractMetadata" =>
        \A f \in {"publisher", "name", "identifier", "version"} :
            \A i \in 1..Len(probe.data[f]) :
                probe.data[f][i] \notin {"<", ">", "\"", "'", "&"}

\* C22: when identifier, publisher and name of the extracted descriptor are
\* all non-empty, the identifier is the publisher, a dot, and the name
C22_IdentifierConsistency ==
    (/\ probe.fn = "extractMetadata"
     /\ probe.data.identifier # <<>>
     /\ probe.data.publisher # <<>>
     /\ probe.data.name # <<>>)
    => probe.data.identifier = probe.data.publisher \o <<".">> \o probe.data.name

\* C23: a second extraction on the same document and page address, starting
\* from a descriptor the first one completed, leaves every field as it was
C23_Idempotent ==
    (/\ probe.fn = "extractMetadata"
     /\ probe.runs = 2
     /\ probe.previous.publisher # <<>> /\ probe.previous.name # <<>>
     /\ probe.previous.identifier # <<>> /\ probe.previous.version # <<>>)
    => /\ probe.data.publisher = probe.previous.publisher
       /\ probe.data.name = probe.previous.name
       /\ probe.data.identifier = probe.previous.identifier
       /\ probe.data.version = probe.previous.version

\* a second run happened on a complete descriptor whose version came from a
\* structured data block
C23_SecondRunOnComplete ==
    /\ probe.fn = "extractMetadata"
    /\ probe.runs = 2
    /\ probe.doc = DocTagged
    /\ probe.previous.publisher # <<>> /\ probe.previous.name # <<>>
    /\ probe.previous.identifier # <<>> /\ probe.previous.version # <<>>

\* C24: extraction returns normally for every page: missing data leaves the
\* descriptor incomplete, in the enhanced script as in the content script
C24_ExtractionNeverThrows ==
    probe.fn = "enhancedExtract" => ~probe.result.threw

\* C25: after any sequence of injection attempts (the first cycle, reads of
\* the setting pending for the orchestrator and the watcher at once, runs of
\* the enhanced script) the page holds at most one element with the id
\* vsix-downloader-container
C25_AtMostOneContainer ==
    containers + (IF enhancedPanel THEN 1 ELSE 0) <= 1

\* two reads of the setting were pending at once, one for the cycle and one
\* for the watcher, and the page holds a container
C25_OverlappingReads ==
    /\ containers + (IF enhancedPanel THEN 1 ELSE 0) = 1
    /\ \E i, j \in 1..Len(awaits) :
          /\ awaits[i].op = "storageGet" /\ awaits[i].by = "startProcessing"
          /\ awaits[j].op = "storageGet" /\ awaits[j].by = "mutation"

\* C26: when handleNavigation has reset the state, every retry timer and
\* every debounce timer scheduled for the previous page view is cancelled:
\* the only timer of these kinds left is the navigation debounce just armed
C26_NavigationCancelsTimers ==
    (\E e \in effects : e.kind = "reset") =>
        \A i \in 1..Len(timers) :
            /\ timers[i].kind # "retry"
            /\ timers[i].kind = "debounce" => timers[i].arg = "navigation"

\* C27: at most one retry timer is pending, and at most one debounce timer
\* for each debounce key
C27_SingleSlotTimers ==
    /\ Cardinality({i \in 1..Len(timers) : timers[i].kind = "retry"}) <= 1
    /\ \A key \in DebounceKeys :
          Cardinality({i \in 1..Len(timers) :
                          timers[i].kind = "debounce" /\ timers[i].arg = key}) <= 1

\* C28: in a page view without navigation, the step that makes the retry
\* counter k (k = 1..5) schedules, as the newest timer, a retry timer
\* 1000 * 2^(k-1) time units ahead: 1000, 2000, 4000, 8000, 16000
C28_BackoffSchedule ==
    [][retryAttempts' = retryAttempts + 1 =>
          /\ retryAttempts' \in 1..5
          /\ timers' # <<>>
          /\ timers'[Len(timers')].kind = "retry"
          /\ timers'[Len(timers')].left =
                 <<1000, 2000, 4000, 8000, 16000>>[retryAttempts']]_vars

\* the fifth retry has just been scheduled
C28_FifthRetry ==
    /\ retryAttempts = 5
    /\ \E e \in effects : e.kind = "extraction"
    /\ \E i \in 1..Len(timers) : timers[i].kind = "retry" /\ timers[i].left = 16000

WatcherReads(q) ==
    Cardinality({i \in 1..Len(q) : q[i].op = "storageGet" /\ q[i].by = "mutation"})

\* C30: the steps of the change watcher (the debounced check of the
\* mutation callback, and checkAutoInject resumed for it after the settings
\* read) run no extraction and leave the descriptor, the retry counter and
\* the in-flight flag as they are
C30_WatcherLeavesDescriptor ==
    [][(\/ \E e \in effects' : e.kind = "check"
        \/ WatcherReads(awaits') < WatcherReads(awaits))
       => /\ UNCHANGED <<extensionData, retryAttempts, isProcessing, extractions>>
          /\ ~\E e \in effects' : e.kind = "extraction"]_vars

\* the watcher's debounced check has just run and started a read of the
\* setting, while a cycle of startProcessing is in flight on a complete
\* descriptor
C30_WatcherChecks ==
    /\ \E e \in effects : e.kind = "check"
    /\ WatcherReads(awaits) > 0
    /\ isProcessing
    /\ hasValidData(extensionData)
\* C31: after one extraction pass the version is the value of the first of
\* structured data, DOM scan, page state that yields one; a strategy of
\* lower priority does not overwrite it
C31_StrategyOrder ==
    (probe.fn = "extractMetadata" /\ probe.runs = 1) =>
        probe.data.version =
            IF StructuredDataVersion(probe.doc) # Undefined
            THEN StructuredDataVersion(probe.doc).v
            ELSE IF DomVersion(probe.doc) # Undefined
            THEN DomVersion(probe.doc).v
            ELSE IF PageDataVersion(probe.doc) # Undefined
            THEN PageDataVersion(probe.doc).v
            ELSE <<>>

\* a pass on a document where all three strategies find a version, each a
\* different one, and on one where the last two do
C31_SeveralStrategiesSucceed ==
    /\ probe.fn = "extractMetadata" /\ probe.runs = 1
    /\ probe.doc = DocAll
    /\ probe.data.version = <<"3", ".", "0", ".", "0">>

\* the candidates of a block in the order the strategy probes them
Candidates(block) ==
    <<block.softwareVersion, block.version, block.Version, block.offersVersion>>

\* the parsable blocks of a document with a candidate that is a version
MatchingBlocks(d) ==
    {i \in 1..Len(d.scripts) :
        /\ d.scripts[i].ok
        /\ \E k \in 1..4 : isValidVersion(Candidates(d.scripts[i])[k])}

\* C32: when a parsable block has a candidate key holding a version, the
\* structured-data strategy succeeds with the first such value of the first
\* such block, even when an earlier key holds something else
C32_FirstMatchingCandidate ==
    (/\ probe.fn = "extractMetadata" /\ probe.runs = 1
     /\ MatchingBlocks(probe.doc) # {})
    => LET block == probe.doc.scripts[Leftmost(MatchingBlocks(probe.doc))]
           first == Leftmost({k \in 1..4 : isValidVersion(Candidates(block)[k])})
       IN probe.data.version = Candidates(block)[first].v

\* a text that starts with digits, a dot, digits, a dot, and a digit
SemverPrefix(s) ==
    \E i, j \in 1..Len(s) :
        /\ 1 < i /\ i + 1 < j /\ j < Len(s)
        /\ s[i] = "." /\ s[j] = "."
        /\ \A k \in (1..(i - 1)) \cup ((i + 1)..(j - 1)) \cup {j + 1} : s[k] \in Digits

\* C34: the version of the descriptor is empty or starts with three numbers
\* separated by dots, whichever strategy stored it
C34_VersionValidity ==
    /\ extensionData.version = <<>> \/ SemverPrefix(extensionData.version)
    /\ probe.fn = "extractMetadata" =>
          probe.data.version = <<>> \/ SemverPrefix(probe.data.version)

\* each strategy has stored a version
C34_VersionStored ==
    /\ probe.fn = "extractMetadata"
    /\ probe.doc \in {DocTagged, DocVersioned, DocState}
    /\ probe.data.version # <<>>

\* C33: a version the descriptor holds is not changed by a later pass in the
\* same page view, whatever the document has become
C33_WrittenOnlyWhileUnset ==
    [][(extensionData.version # <<>> /\ seenUrl' = seenUrl /\ location' = location)
       => extensionData'.version = extensionData.version]_vars

\* C35: for every descriptor the content script reports as valid (and whose
\* name its buttons accept), the popup, which splits the identifier, and the
\* injected buttons, which use publisher and name, resolve the same vsix URL
\* and the same vsixpackage URL
C35_PopupAndButtonsAgree ==
    (/\ probe.fn = "extractMetadata"
     /\ hasValidData(probe.data)
     /\ ~MissingFields(probe.data))
    => /\ PopupUrl(probe.data, "vsix")
            = VsixUrl(probe.data.publisher, probe.data.name, probe.data.version)
       /\ PopupUrl(probe.data, "vsixpackage")
            = PackageUrl(probe.data.publisher, probe.data.name, probe.data.version)

\* C36: for an identifier with more than one dot, the URL the legacy script
\* gives its button (the enhanced script resolves with the same code) has
\* the part before the first dot as the publisher and the whole remainder
\* as the extension
C36_WholeRemainder ==
    (legacyButton.present /\ Len(SplitDot(tableData.identifier)) > 2)
    => legacyButton.url = VsixUrl(SplitDot(tableData.identifier)[1],
                                  JoinDot(Tail(SplitDot(tableData.identifier))),
                                  tableData.version)

CycleReads(q) ==
    Cardinality({i \in 1..Len(q) : q[i].op = "storageGet" /\ q[i].by = "startProcessing"})

\* C38: when a cycle suspended on the settings read resumes after a
\* navigation has reset the state, and no new cycle has completed the
\* descriptor since, it injects nothing, installs no observer and writes
\* nothing into the descriptor
C38_StaleCycleIsInert ==
    [][(/\ CycleReads(awaits') < CycleReads(awaits)
        /\ (\/ extensionData.identifier = <<>>
            \/ extensionData.publisher = <<>>
            \/ extensionData.version = <<>>))
       => /\ UNCHANGED <<containers, isInjected, observer, extensionData>>
          /\ ~\E e \in effects' : e.kind = "inject"]_vars

\* a navigation has just reset the state while a cycle of the previous page
\* view is suspended on the settings read
C38_ResetWhileSuspended ==
    /\ \E e \in effects : e.kind = "reset"
    /\ CycleReads(awaits) > 0
    /\ extensionData = EmptyData
    /\ ~observer /\ ~isInjected

\* C39: every download recorded in state.downloads whose item the platform
\* has reported complete or interrupted is on its way out of the map: the
\* timer that deletes its record is pending.
C39_TrackedDownloadsCleaned ==
    \A id \in DOMAIN bgDownloads :
        items[id] \in {"complete", "interrupted"} => Pending("cleanup", id) # {}

====
